---- MODULE Spec2Model ----
(***************************************************************************)
(* Classical-cipher tools of the repository: the shift (Caesar) cipher,    *)
(* the Vigenere cipher, the simple substitution cipher with its            *)
(* word-pattern constraint solver, the affine cipher, the frequency        *)
(* analysis (Kasiski examination, subkey search) of freq_analysis.py, the  *)
(* English detection of is_lang.py, the interactive brute force and the    *)
(* key derivation of the shift and affine scripts, and the identity of the *)
(* map objects the solver's functions take and return.                     *)
(*                                                                         *)
(* A character is a one-character string; a Python str is a sequence of    *)
(* characters.  Python indices are 0-based, TLA+ sequences 1-based: the    *)
(* helpers below keep Python's numbering.                                  *)
(***************************************************************************)
EXTENDS Integers, Sequences, FiniteSets, TLC

VARIABLES
    pc,          \* position of the running script
    script,      \* which source file is running
    msg,         \* the message handed to encrypt
    key,         \* the key argument
    ciphertext,  \* result of encrypt
    cleartext,   \* result of decrypt
    cipher_text,     \* brute_force: the words of the message
    word_idx,        \* get_letter_mapping: number of words the loop has done
    cipher_map,      \* brute_force / get_letter_mapping: the constraint map
    evidence,        \* history: letters some word map has given candidates to
    work_map,        \* get_reduced_map: _cipher_map
    solved_letters,  \* get_reduced_map: solved_letters
    s_pos,           \* get_reduced_map: position of the for loop in solved_letters
    reduced_map,     \* the map get_reduced_map returned
    reduced_twice,   \* the map get_reduced_map returned for reduced_map
    run,             \* how many times get_reduced_map has been started
    dict_heap,       \* the dict objects in memory, by address
    list_heap,       \* the list objects in memory, by address
    first_map,       \* address of the first map handed to the function called
    second_map,      \* combine_maps: address of the second map
    new_map,         \* address of the map the function returned
    freq_text,             \* freq_analysis: the text argument
    number,                \* freq_analysis: the integer argument, or the score
    max_arg,               \* find_factors: max
    distances,             \* freq_analysis: pattern_distances
    returned,              \* freq_analysis: what the function called returned
    subkey_idx,            \* main: how many subkeys the loop has tried
    highest_subkey_score,  \* main: highest_subkey_score
    highest_subkeys        \* main: highest_subkeys

cipher_vars == <<pc, script, msg, key, ciphertext, cleartext>>

\* the objects of simple_subs_cipher.py in memory, and the references to them
heap_vars == <<dict_heap, list_heap, first_map, second_map, new_map>>

solver_vars == <<cipher_text, word_idx, cipher_map, evidence, work_map, solved_letters, s_pos, reduced_map, reduced_twice,
                 run, heap_vars>>

freq_vars == <<freq_text, number, max_arg, distances, returned, subkey_idx,
               highest_subkey_score, highest_subkeys>>

vars == <<cipher_vars, solver_vars, freq_vars>>

\* what the cipher round trips leave alone
not_cipher_vars == <<solver_vars, freq_vars>>

\* no object is in memory
HeapIdle ==
    /\ dict_heap = <<>>
    /\ list_heap = <<>>
    /\ first_map = 0
    /\ second_map = 0
    /\ new_map = 0

\* the solver's variables before brute_force is entered
SolverIdle ==
    /\ cipher_text = <<>>
    /\ word_idx = 0
    /\ cipher_map = <<>>
    /\ evidence = {}
    /\ work_map = <<>>
    /\ solved_letters = <<>>
    /\ s_pos = 0
    /\ reduced_map = <<>>
    /\ reduced_twice = <<>>
    /\ run = 0
    /\ HeapIdle

\* the variables of freq_analysis.py before any of its functions is called
FreqIdle ==
    /\ freq_text = <<>>
    /\ number = 0
    /\ max_arg = 0
    /\ distances = <<>>
    /\ returned = <<>>
    /\ subkey_idx = 0
    /\ highest_subkey_score = 0
    /\ highest_subkeys = <<>>

----------------------------------------------------------------------------
(* Bounds of the model *)

\* longest message drawn for the cipher round trips
MaxMsgLen == 2
\* how far outside range(len(SYMBOLS)) the drawn shift keys go
KeyExtra == 2

----------------------------------------------------------------------------
(* Python helpers *)

\* all sequences over S of length at most n
BoundedSeq(S, n) == UNION {[1..k -> S] : k \in 0..n}

\* the value standing for a raised IndexError (no character is "IndexError")
IndexError == <<"IndexError">>

\* c in s, for a single character c
CharIn(c, s) == \E i \in 1..Len(s) : s[i] = c

\* s.find(c) for a single character c: 0-based index of the first c, or -1
Find(s, c) ==
    IF CharIn(c, s)
    THEN (CHOOSE i \in 1..Len(s) : s[i] = c /\ \A j \in 1..(i - 1) : s[j] # c) - 1
    ELSE 0 - 1

\* s[i] in Python: negative i counts from the end, out of range raises
Subscript(s, i) ==
    IF i >= 0 /\ i < Len(s) THEN <<s[i + 1]>>
    ELSE IF i < 0 /\ i >= 0 - Len(s) THEN <<s[Len(s) + i + 1]>>
    ELSE IndexError

\* ''.join over per-character results, an IndexError in any of them propagating
RECURSIVE JoinAll(_)
JoinAll(parts) ==
    IF parts = <<>> THEN <<>>
    ELSE IF Head(parts) = IndexError THEN IndexError
    ELSE LET rest == JoinAll(Tail(parts))
         IN  IF rest = IndexError THEN IndexError ELSE Head(parts) \o rest

----------------------------------------------------------------------------
(* Shift (Caesar) cipher: src/ciphers/caesar-chiper.py, src/caesar-chiper.py *)

SYMBOLS == <<"A","B","C","D","E","F","G","H","I","J","K","L","M",
             "N","O","P","Q","R","S","T","U","V","W","X","Y","Z",
             "a","b","c","d","e","f","g","h","i","j","k","l","m",
             "n","o","p","q","r","s","t","u","v","w","x","y","z",
             "!","@","#","$","%","^","&","*","(",")","_","+">>

\* the wrap with the boundary test off by one
caesar_wrap_strict(idx, wrapper_value) ==
    IF idx > wrapper_value THEN idx - wrapper_value
    ELSE IF idx < 0 THEN idx + wrapper_value
    ELSE idx

\* "Wrap values where index is under or over the symbols list": one wrap only
caesar_wrap(idx, wrapper_value) ==
    IF idx >= wrapper_value THEN idx - wrapper_value
    ELSE IF idx < 0 THEN idx + wrapper_value
    ELSE idx

\* the loop body of encrypt that shifts towards the start of the symbols
caesar_encrypt_char_backwards(char, k, symbols) ==
    IF CharIn(char, symbols)
    THEN Subscript(symbols, caesar_wrap(Find(symbols, char) - k, Len(symbols)))
    ELSE <<char>>

\* body of the for loop of encrypt / encrypt_msg, for one character
caesar_encrypt_char(char, k, symbols) ==
    IF CharIn(char, symbols)
    THEN Subscript(symbols, caesar_wrap(Find(symbols, char) + k, Len(symbols)))
    ELSE <<char>>

\* body of the for loop of decrypt / decrypt_msg, for one character
caesar_decrypt_char(char, k, symbols) ==
    IF CharIn(char, symbols)
    THEN Subscript(symbols, caesar_wrap(Find(symbols, char) - k, Len(symbols)))
    ELSE <<char>>

\* src/caesar-chiper.py
encrypt_msg(m, k, symbols) ==
    JoinAll([i \in 1..Len(m) |-> caesar_encrypt_char(m[i], k, symbols)])

decrypt_msg(m, k, symbols) ==
    JoinAll([i \in 1..Len(m) |-> caesar_decrypt_char(m[i], k, symbols)])

\* src/ciphers/caesar-chiper.py
caesar_encrypt(m, k) ==
    JoinAll([i \in 1..Len(m) |-> caesar_encrypt_char(m[i], k, SYMBOLS)])

caesar_decrypt(m, k) ==
    JoinAll([i \in 1..Len(m) |-> caesar_decrypt_char(m[i], k, SYMBOLS)])

CaesarScripts == {"ciphers/caesar-chiper.py", "caesar-chiper.py"}

\* characters drawn for shift-cipher messages: both ends of SYMBOLS, a letter
\* in the middle, and the space, which is outside SYMBOLS
CaesarChars == {"A", "T", "+", " "}

CaesarKeys == (0 - KeyExtra)..(Len(SYMBOLS) - 1 + KeyExtra)

CaesarInit ==
    /\ pc = "start"
    /\ script \in CaesarScripts
    /\ msg \in BoundedSeq(CaesarChars, MaxMsgLen)
    /\ key \in CaesarKeys
    /\ ciphertext = <<>>
    /\ cleartext = <<>>
    /\ SolverIdle
    /\ FreqIdle

CaesarEncrypt ==
    /\ pc = "start"
    /\ LET r == IF script = "caesar-chiper.py"
                THEN encrypt_msg(msg, key, SYMBOLS)
                ELSE caesar_encrypt(msg, key)
       IN  /\ ciphertext' = r
           /\ pc' = IF r = IndexError THEN "IndexError" ELSE "encrypted"
    /\ UNCHANGED <<script, msg, key, cleartext, not_cipher_vars>>

CaesarDecrypt ==
    /\ pc = "encrypted"
    /\ LET r == IF script = "caesar-chiper.py"
                THEN decrypt_msg(ciphertext, key, SYMBOLS)
                ELSE caesar_decrypt(ciphertext, key)
       IN  /\ cleartext' = r
           /\ pc' = IF r = IndexError THEN "IndexError" ELSE "decrypted"
    /\ UNCHANGED <<script, msg, key, ciphertext, not_cipher_vars>>

CaesarNext == CaesarEncrypt \/ CaesarDecrypt

SpecCaesar == CaesarInit /\ [][CaesarNext]_vars

\* C1: shift-cipher round trip.  For every key K with 0 <= K < len(SYMBOLS)
\* neither encrypt nor decrypt raises, decrypt(encrypt(M, K), K) = M, and every
\* character of M outside SYMBOLS sits unchanged at the same position of the
\* ciphertext.
C1_CaesarRoundTrip ==
    (key >= 0 /\ key < Len(SYMBOLS)) =>
        /\ pc # "IndexError"
        /\ pc \in {"encrypted", "decrypted"} =>
              /\ Len(ciphertext) = Len(msg)
              /\ \A i \in 1..Len(msg) :
                    ~CharIn(msg[i], SYMBOLS) => ciphertext[i] = msg[i]
        /\ pc = "decrypted" => cleartext = msg

\* a wrapping round trip with a passthrough character has completed
C1_Witness ==
    /\ pc = "decrypted"
    /\ key = Len(SYMBOLS) - 1
    /\ msg = <<"+", " ">>
    /\ ciphertext = <<"_", " ">>

\* C21: shift-cipher mapping.  For a key K with 0 <= K < N = len(SYMBOLS) the
\* ciphertext has, at the place of each character of M found at index i of
\* SYMBOLS, the symbol at index (i + K) mod N, and at the place of every other
\* character that character itself.
C21_ShiftMapping ==
    (key >= 0 /\ key < Len(SYMBOLS) /\ pc \in {"encrypted", "decrypted"}) =>
        /\ Len(ciphertext) = Len(msg)
        /\ \A i \in 1..Len(msg) :
              ciphertext[i] =
                  IF CharIn(msg[i], SYMBOLS)
                  THEN SYMBOLS[((Find(SYMBOLS, msg[i]) + key) % Len(SYMBOLS)) + 1]
                  ELSE msg[i]

\* with key 3, 'A' has become 'D' and 'T' has become 'W'
C21_Witness ==
    /\ pc = "encrypted"
    /\ key = 3
    /\ msg = <<"A", "T">>
    /\ ciphertext = <<"D", "W">>

----------------------------------------------------------------------------
(* Python str methods on single characters *)

LETTERS == SubSeq(SYMBOLS, 1, 26)

LOWERS == SubSeq(SYMBOLS, 27, 52)

\* U+017F LATIN SMALL LETTER LONG S: lower case, upper() is "S"
LongS == "U+017F"

\* U+FB06 LATIN SMALL LIGATURE ST: lower case, upper() is the two-character "ST"
LigatureSt == "U+FB06"

\* char.upper(): a string, not always of one character
upper(char) ==
    IF CharIn(char, LOWERS) THEN <<LETTERS[Find(LOWERS, char) + 1]>>
    ELSE IF char = LongS THEN <<"S">>
    ELSE IF char = LigatureSt THEN <<"S", "T">>
    ELSE <<char>>

\* char.lower() of a character of LETTERS
lower(char) ==
    IF CharIn(char, LETTERS) THEN LOWERS[Find(LETTERS, char) + 1] ELSE char

\* char.islower()
islower(char) == CharIn(char, LOWERS) \/ char \in {LongS, LigatureSt}

\* sub in s, for strings: a substring test (the empty string is in every string)
StrIn(sub, s) ==
    \E i \in 1..(Len(s) - Len(sub) + 1) : SubSeq(s, i, i + Len(sub) - 1) = sub

\* s.find(sub) for strings: 0-based index of the first occurrence, or -1
StrFind(s, sub) ==
    IF StrIn(sub, s)
    THEN (CHOOSE i \in 1..(Len(s) - Len(sub) + 1) :
              /\ SubSeq(s, i, i + Len(sub) - 1) = sub
              /\ \A j \in 1..(i - 1) : SubSeq(s, j, j + Len(sub) - 1) # sub) - 1
    ELSE 0 - 1

----------------------------------------------------------------------------
(* Vigenere cipher: src/vigenere_cipher.py *)

\* longest Vigenere key drawn
MaxKeyLen == 2

\* key_idx += 1 if key_idx == (len(key) - 1) else 0
vigenere_rotate(key_idx, k) ==
    key_idx + (IF key_idx = Len(k) - 1 THEN 1 ELSE 0)

\* the letter branch of the loop body of transform_message
vigenere_letter(letter, subkey, operation) ==
    LET found == StrFind(LETTERS, upper(letter))
        letter_idx == IF operation = "encrypt" THEN found + Find(LETTERS, subkey)
                      ELSE IF operation = "decrypt" THEN found - Find(LETTERS, subkey)
                      ELSE found
        enciphered == LETTERS[(letter_idx % Len(LETTERS)) + 1]
    IN  IF islower(letter) THEN lower(enciphered) ELSE enciphered

\* the for loop of transform_message from key_idx on; key[key_idx] may raise
RECURSIVE vigenere_loop(_, _, _, _)
vigenere_loop(message, k, operation, key_idx) ==
    IF message = <<>> THEN <<>>
    ELSE LET letter == Head(message)
         IN  IF StrIn(upper(letter), LETTERS)
             THEN LET subkey == Subscript(k, key_idx)
                  IN  IF subkey = IndexError THEN IndexError
                      ELSE LET rest == vigenere_loop(Tail(message), k, operation,
                                                     vigenere_rotate(key_idx, k))
                           IN  IF rest = IndexError THEN IndexError
                               ELSE <<vigenere_letter(letter, subkey[1], operation)>>
                                        \o rest
             ELSE LET rest == vigenere_loop(Tail(message), k, operation, key_idx)
                  IN  IF rest = IndexError THEN IndexError ELSE <<letter>> \o rest

vigenere_transform_message(message, k, operation) ==
    vigenere_loop(message, k, operation, 0)

\* characters drawn for Vigenere messages: upper case, lower case, non-letters
VigenereChars == {"A", "y", " ", "!"}

\* letters drawn for Vigenere keys: shifts 0, 1 and 25
VigenereKeyChars == {"A", "B", "Z"}

VigenereInit ==
    /\ pc = "start"
    /\ script = "vigenere_cipher.py"
    /\ msg \in BoundedSeq(VigenereChars, MaxMsgLen)
    /\ key \in BoundedSeq(VigenereKeyChars, MaxKeyLen) \ {<<>>}
    /\ ciphertext = <<>>
    /\ cleartext = <<>>
    /\ SolverIdle
    /\ FreqIdle

VigenereEncrypt ==
    /\ pc = "start"
    /\ LET r == vigenere_transform_message(msg, key, "encrypt")
       IN  /\ ciphertext' = r
           /\ pc' = IF r = IndexError THEN "encrypt: IndexError" ELSE "encrypted"
    /\ UNCHANGED <<script, msg, key, cleartext, not_cipher_vars>>

VigenereDecrypt ==
    /\ pc = "encrypted"
    /\ LET r == vigenere_transform_message(ciphertext, key, "decrypt")
       IN  /\ cleartext' = r
           /\ pc' = IF r = IndexError THEN "decrypt: IndexError" ELSE "decrypted"
    /\ UNCHANGED <<script, msg, key, ciphertext, not_cipher_vars>>

VigenereNext == VigenereEncrypt \/ VigenereDecrypt

SpecVigenere == VigenereInit /\ [][VigenereNext]_vars

\* a character of the 52 upper- and lower-case letters
IsLetter(char) == CharIn(char, LETTERS) \/ CharIn(char, LOWERS)

\* number of letters among the first n characters of m
LettersBefore(m, n) == Cardinality({j \in 1..n : IsLetter(m[j])})

\* the letter `char` moved forward by `shift` positions modulo 26, case kept
ShiftedLetter(char, shift) ==
    LET e == LETTERS[((Find(LETTERS, upper(char)[1]) + shift) % 26) + 1]
    IN  IF CharIn(char, LOWERS) THEN lower(e) ELSE e

\* C2: Vigenere key cycling.  In every ciphertext that encrypt returns, the
\* k-th letter of the message (letters only, from 0) is shifted forward by
\* LETTERS.find(key[k mod len(key)]) modulo 26; non-letters pass through and
\* use no key position.
C2_KeyCycling ==
    pc \in {"encrypted", "decrypted", "decrypt: IndexError"} =>
        /\ Len(ciphertext) = Len(msg)
        /\ \A i \in 1..Len(msg) :
              IF IsLetter(msg[i])
              THEN ciphertext[i] =
                      ShiftedLetter(msg[i],
                          Find(LETTERS,
                               key[(LettersBefore(msg, i - 1) % Len(key)) + 1]))
              ELSE ciphertext[i] = msg[i]

\* C3: Vigenere round trip.  For every message and every non-empty upper-case
\* key, keys of length 1 included, encrypt then decrypt completes without
\* error and returns the message, case and non-letters preserved.
C3_VigenereRoundTrip ==
    /\ pc \notin {"encrypt: IndexError", "decrypt: IndexError"}
    /\ pc = "decrypted" => cleartext = msg

----------------------------------------------------------------------------
(* Simple substitution cipher: src/simple_subs_cipher.py, encrypt / decrypt *)

\* number of rotated alphabets drawn as substitution keys, besides the reversed one
MaxKeyRot == 3

\* the loop body of transform_message for one character
subs_transform_char(char, symbol_set, source_set) ==
    IF StrIn(upper(char), symbol_set)
    THEN LET idx == StrFind(symbol_set, upper(char))
         IN  IF islower(char) THEN lower(source_set[idx + 1])
             ELSE source_set[idx + 1]
    ELSE char

subs_transform_message(message, k, operation) ==
    LET symbol_set == IF operation = "encrypt" THEN LETTERS ELSE k
        source_set == IF operation = "encrypt" THEN k ELSE LETTERS
    IN  [i \in 1..Len(message) |->
            subs_transform_char(message[i], symbol_set, source_set)]

\* LETTERS rotated left by r: a permutation of the 26 letters
Rotated(r) == [i \in 1..26 |-> LETTERS[((i - 1 + r) % 26) + 1]]

\* keys drawn where generate_key shuffles: rotations and the reversed alphabet
SubsKeys == {Rotated(r) : r \in 0..MaxKeyRot} \cup {[i \in 1..26 |-> LETTERS[27 - i]]}

\* characters drawn for substitution messages: upper case, lower case, a
\* non-letter, and two non-ASCII lower-case characters
SubsChars == {"A", "y", " ", LongS, LigatureSt}

SubsInit ==
    /\ pc = "start"
    /\ script = "simple_subs_cipher.py"
    /\ msg \in BoundedSeq(SubsChars, MaxMsgLen)
    /\ key \in SubsKeys
    /\ ciphertext = <<>>
    /\ cleartext = <<>>
    /\ SolverIdle
    /\ FreqIdle

SubsEncrypt ==
    /\ pc = "start"
    /\ ciphertext' = subs_transform_message(msg, key, "encrypt")
    /\ pc' = "encrypted"
    /\ UNCHANGED <<script, msg, key, cleartext, not_cipher_vars>>

SubsDecrypt ==
    /\ pc = "encrypted"
    /\ cleartext' = subs_transform_message(ciphertext, key, "decrypt")
    /\ pc' = "decrypted"
    /\ UNCHANGED <<script, msg, key, ciphertext, not_cipher_vars>>

SubsNext == SubsEncrypt \/ SubsDecrypt

SpecSubs == SubsInit /\ [][SubsNext]_vars

\* C4: substitution round trip.  For every message and every key that is a
\* permutation of the 26 letters, decrypting the encryption returns the
\* message, and the ciphertext leaves every non-letter character unchanged.
C4_SubsRoundTrip ==
    /\ pc \in {"encrypted", "decrypted"} =>
          \A i \in 1..Len(msg) : ~IsLetter(msg[i]) => ciphertext[i] = msg[i]
    /\ pc = "decrypted" => cleartext = msg

----------------------------------------------------------------------------
(* Affine cipher: src/ciphers/affine_cipher.py *)

\* largest multiplicative component key // SYMBOL_LEN drawn
MaxKeyA == 7

AFFINE_SYMBOLS == SYMBOLS \o <<"[", "]">>

SYMBOL_LEN == Len(AFFINE_SYMBOLS)

\* None
None == <<>>

\* cryptomath.gcd: Euclid's algorithm
RECURSIVE gcd(_, _)
gcd(a, b) == IF a = 0 THEN b ELSE gcd(b % a, a)

\* cryptomath.find_mod_inverse: the x in [0, m) with a * x % m = 1, or None
find_mod_inverse(a, m) ==
    IF gcd(a, m) # 1 THEN None
    ELSE <<CHOOSE x \in 0..(m - 1) : (a * x) % m = 1>>

\* validate_key that lets the components 1 through
validate_key_from_one(k) ==
    LET key_a == k \div SYMBOL_LEN
        key_b == k % SYMBOL_LEN
    IN  IF \/ gcd(key_a, SYMBOL_LEN) # 1
           \/ (key_a < 0 \/ key_b < 0)
           \/ (key_a < 1 \/ key_b < 1)
        THEN None
        ELSE <<key_a, key_b>>

validate_key(k) ==
    LET key_a == k \div SYMBOL_LEN
        key_b == k % SYMBOL_LEN
    IN  IF \/ gcd(key_a, SYMBOL_LEN) # 1
           \/ (key_a < 0 \/ key_b < 0)
           \/ (key_a <= 1 \/ key_b <= 1)
        THEN None
        ELSE <<key_a, key_b>>

\* the loop body of encrypt for one character
affine_encrypt_char(char, keys) ==
    IF CharIn(char, AFFINE_SYMBOLS)
    THEN AFFINE_SYMBOLS[(((Find(AFFINE_SYMBOLS, char) * keys[1]) + keys[2])
                            % SYMBOL_LEN) + 1]
    ELSE char

\* the loop body of decrypt multiplying before it subtracts the second key
affine_decrypt_char_swapped(char, keys, mod_inverse) ==
    IF CharIn(char, AFFINE_SYMBOLS)
    THEN AFFINE_SYMBOLS[(((Find(AFFINE_SYMBOLS, char) * mod_inverse) - keys[2])
                            % SYMBOL_LEN) + 1]
    ELSE char

\* the loop body of decrypt for one character
affine_decrypt_char(char, keys, mod_inverse) ==
    IF CharIn(char, AFFINE_SYMBOLS)
    THEN LET found == Find(AFFINE_SYMBOLS, char) - keys[2]
             idx == IF found < 0 THEN found + SYMBOL_LEN ELSE found
         IN  AFFINE_SYMBOLS[((idx * mod_inverse) % SYMBOL_LEN) + 1]
    ELSE char

\* encrypt with a key given; an invalid key makes it exit
affine_encrypt(text, k) ==
    LET keys == validate_key(k)
    IN  IF keys = None THEN [exit |-> TRUE, text |-> <<>>]
        ELSE [exit |-> FALSE,
              text |-> [i \in 1..Len(text) |-> affine_encrypt_char(text[i], keys)]]

\* decrypt; an invalid key or a missing inverse makes it exit
affine_decrypt(text, k) ==
    LET keys == validate_key(k)
    IN  IF keys = None THEN [exit |-> TRUE, text |-> <<>>]
        ELSE LET mod_inverse == find_mod_inverse(keys[1], SYMBOL_LEN)
             IN  IF mod_inverse = None THEN [exit |-> TRUE, text |-> <<>>]
                 ELSE [exit |-> FALSE,
                       text |-> [i \in 1..Len(text) |->
                           affine_decrypt_char(text[i], keys, mod_inverse[1])]]

\* characters drawn for affine messages: both ends of SYMBOLS, a letter in the
\* middle, and the space, which is outside SYMBOLS
AffineChars == {"A", "b", "]", " "}

AffineKeys == {a * SYMBOL_LEN + b : a \in 0..MaxKeyA, b \in 0..(SYMBOL_LEN - 1)}

AffineInit ==
    /\ pc = "start"
    /\ script = "ciphers/affine_cipher.py"
    /\ msg \in BoundedSeq(AffineChars, MaxMsgLen)
    /\ key \in AffineKeys
    /\ ciphertext = <<>>
    /\ cleartext = <<>>
    /\ SolverIdle
    /\ FreqIdle

AffineEncrypt ==
    /\ pc = "start"
    /\ LET r == affine_encrypt(msg, key)
       IN  /\ ciphertext' = r.text
           /\ pc' = IF r.exit THEN "encrypt: exit" ELSE "encrypted"
    /\ UNCHANGED <<script, msg, key, cleartext, not_cipher_vars>>

AffineDecrypt ==
    /\ pc = "encrypted"
    /\ LET r == affine_decrypt(ciphertext, key)
       IN  /\ cleartext' = r.text
           /\ pc' = IF r.exit THEN "decrypt: exit" ELSE "decrypted"
    /\ UNCHANGED <<script, msg, key, ciphertext, not_cipher_vars>>

\* main, lines 35-38: decrypt called on the message itself
AffineDecryptMessage ==
    /\ pc = "start"
    /\ LET r == affine_decrypt(msg, key)
       IN  /\ cleartext' = r.text
           /\ pc' = IF r.exit THEN "decrypt: exit" ELSE "decrypted message"
    /\ UNCHANGED <<script, msg, key, ciphertext, not_cipher_vars>>

AffineNext == AffineEncrypt \/ AffineDecrypt \/ AffineDecryptMessage

SpecAffine == AffineInit /\ [][AffineNext]_vars

\* the key is one validate_key accepts
AffineKeyAccepted ==
    /\ gcd(key \div 66, 66) = 1
    /\ key \div 66 > 1
    /\ key % 66 > 1

\* C5: affine round trip.  For every key validate_key accepts (key // 66
\* coprime with 66 and > 1, key % 66 > 1) encrypt and decrypt both return,
\* decrypt(encrypt(M, K), K) = M, each decrypted symbol is the one at
\* (index - key_b) times the inverse of key_a modulo 66, and characters outside
\* SYMBOLS are unchanged.
C5_AffineRoundTrip ==
    AffineKeyAccepted =>
        /\ pc \notin {"encrypt: exit", "decrypt: exit"}
        /\ pc \in {"encrypted", "decrypted"} =>
              /\ Len(ciphertext) = Len(msg)
              /\ \A i \in 1..Len(msg) :
                    ~CharIn(msg[i], AFFINE_SYMBOLS) => ciphertext[i] = msg[i]
        /\ pc = "decrypted" =>
              /\ cleartext = msg
              /\ \E inv \in 0..65 :
                    /\ ((key \div 66) * inv) % 66 = 1
                    /\ \A i \in 1..Len(ciphertext) :
                          CharIn(ciphertext[i], AFFINE_SYMBOLS) =>
                              cleartext[i] = AFFINE_SYMBOLS[
                                  (((Find(AFFINE_SYMBOLS, ciphertext[i]) - (key % 66))
                                      * inv) % 66) + 1]

\* a round trip under the accepted key (5, 65) with a passthrough character
C5_Witness ==
    /\ pc = "decrypted"
    /\ key = 5 * 66 + 65
    /\ msg = <<"]", " ">>
    /\ ciphertext # msg
    /\ cleartext = msg

\* C22: affine key validation.  validate_key(K) is the pair (K // 66, K % 66)
\* exactly when K // 66 is coprime with 66 and both K // 66 and K % 66 exceed
\* 1, and None otherwise; with a key it rejects, encrypt and decrypt exit and
\* leave no ciphertext and no cleartext.
C22_KeyValidation ==
    /\ validate_key(key) =
           IF AffineKeyAccepted THEN <<key \div 66, key % 66>> ELSE None
    /\ ~AffineKeyAccepted =>
           /\ pc \in {"start", "encrypt: exit", "decrypt: exit"}
           /\ ciphertext = <<>>
           /\ cleartext = <<>>

\* decrypt has exited for the key (5, 1), whose second component is not
\* above 1
C22_Witness ==
    /\ pc = "decrypt: exit"
    /\ key = 5 * 66 + 1
    /\ msg = <<"A", "b">>
    /\ cleartext = <<>>

----------------------------------------------------------------------------
(* Substitution solver: src/simple_subs_cipher.py, brute_force *)

\* most words in a ciphertext handed to brute_force
MaxWords == 3

LetterSet == {LETTERS[i] : i \in 1..Len(LETTERS)}

\* the elements of a list
Elems(list) == {list[i] : i \in 1..Len(list)}

create_letter_map == [letter \in LetterSet |-> <<>>]

\* make_word_pattern.get_word_pattern: each letter replaced by the number of
\* distinct letters seen before its first occurrence
get_word_pattern(word) ==
    [i \in 1..Len(word) |->
        LET first == CHOOSE j \in 1..i :
                        word[j] = word[i] /\ \A k \in 1..(j - 1) : word[k] # word[i]
        IN  Cardinality({word[k] : k \in 1..(first - 1)})]

\* word_patterns.en_patterns.get(pattern, None): a small pattern dictionary
en_patterns_get(pattern) ==
    IF pattern = <<0>> THEN << <<"A">>, <<"I">> >>
    ELSE IF pattern = <<0, 1>> THEN << <<"A","T">>, <<"I","T">>, <<"A","N">> >>
    ELSE IF pattern = <<0, 1, 0>> THEN << <<"A","H","A">> >>
    ELSE None

\* lines 194-196: the positions of one candidate, from position i on
RECURSIVE add_candidate(_, _, _, _)
add_candidate(word_map, word, candidate, i) ==
    IF i > Len(word) THEN word_map
    ELSE add_candidate(
             IF candidate[i] \notin Elems(word_map[word[i]])
             THEN [word_map EXCEPT ![word[i]] = Append(@, candidate[i])]
             ELSE word_map,
             word, candidate, i + 1)

\* lines 193-196: the word map after all candidates
RECURSIVE add_candidates(_, _, _)
add_candidates(word_map, word, candidates) ==
    IF candidates = <<>> THEN word_map
    ELSE add_candidates(add_candidate(word_map, word, Head(candidates), 1),
                        word, Tail(candidates))

\* combine_maps without the test for something at B
combine_maps_unguarded(map_a, map_b) ==
    [letter \in LetterSet |->
        IF map_a[letter] = <<>>
        THEN map_a[letter] \o map_b[letter]
        ELSE SelectSeq(map_a[letter], LAMBDA x : x \in Elems(map_b[letter]))]

combine_maps(map_a, map_b) ==
    [letter \in LetterSet |->
        IF map_b[letter] # <<>>
        THEN IF map_a[letter] = <<>>
             THEN map_a[letter] \o map_b[letter]
             ELSE SelectSeq(map_a[letter], LAMBDA x : x \in Elems(map_b[letter]))
        ELSE map_a[letter]]

\* ' '.join(words)
RECURSIVE JoinWords(_)
JoinWords(words) ==
    IF words = <<>> THEN <<>>
    ELSE IF Len(words) = 1 THEN words[1]
    ELSE words[1] \o <<" ">> \o JoinWords(Tail(words))

\* ciphertext words drawn: patterns 0, 0.1, 0.1.0 and, for XX, a pattern the
\* dictionary does not hold
CipherWords == { <<"X">>, <<"Y">>, <<"X","Y">>, <<"Y","X">>,
                 <<"X","Z","X">>, <<"Y","Z","Y">>, <<"X","X">> }

\* brute_force up to line 160: the message split in words, a blank map
SolverInit ==
    /\ pc = "get_letter_mapping"
    /\ script = "simple_subs_cipher.py"
    /\ cipher_text \in BoundedSeq(CipherWords, MaxWords)
    /\ msg = JoinWords(cipher_text)
    /\ key = <<>>
    /\ ciphertext = <<>>
    /\ cleartext = <<>>
    /\ word_idx = 0
    /\ cipher_map = create_letter_map
    /\ evidence = {}
    /\ work_map = <<>>
    /\ solved_letters = <<>>
    /\ s_pos = 0
    /\ reduced_map = <<>>
    /\ reduced_twice = <<>>
    /\ run = 0
    /\ HeapIdle
    /\ FreqIdle

\* the loop body that forgets the map when the dictionary has no candidates
letter_mapping_pass_reset(_cipher_map, word) ==
    LET candidates == en_patterns_get(get_word_pattern(word))
        word_map == add_candidates(create_letter_map, word, candidates)
    IN  IF candidates = <<>> THEN create_letter_map
        ELSE combine_maps(_cipher_map, word_map)

\* lines 179-199: the loop body of get_letter_mapping for one word; None and
\* an empty list of candidates are both false for `not candidates`
letter_mapping_pass(_cipher_map, word) ==
    LET candidates == en_patterns_get(get_word_pattern(word))
        word_map == add_candidates(create_letter_map, word, candidates)
    IN  IF candidates = <<>> THEN _cipher_map
        ELSE combine_maps(_cipher_map, word_map)

\* get_letter_mapping: one pass of the loop over the words
IncorporateWord ==
    /\ pc = "get_letter_mapping"
    /\ word_idx < Len(cipher_text)
    /\ LET word == cipher_text[word_idx + 1]
           candidates == en_patterns_get(get_word_pattern(word))
           word_map == add_candidates(create_letter_map, word, candidates)
       IN  /\ cipher_map' = letter_mapping_pass(cipher_map, word)
           /\ evidence' = evidence \cup
                             {letter \in LetterSet : word_map[letter] # <<>>}
    /\ word_idx' = word_idx + 1
    /\ UNCHANGED <<freq_vars, heap_vars, pc, script, msg, key, ciphertext, cleartext, cipher_text,
                   work_map, solved_letters, s_pos, reduced_map, reduced_twice,
                   run>>

\* get_letter_mapping returns; brute_force goes on to get_reduced_map
LetterMappingReturn ==
    /\ pc = "get_letter_mapping"
    /\ word_idx = Len(cipher_text)
    /\ pc' = "get_reduced_map"
    /\ UNCHANGED <<freq_vars, heap_vars, script, msg, key, ciphertext, cleartext, cipher_text, word_idx,
                   cipher_map, evidence, work_map, solved_letters,
                   s_pos, reduced_map, reduced_twice, run>>

\* list.remove(x): the list without its first x
Remove(list, x) ==
    LET i == Find(list, x) + 1
    IN  SubSeq(list, 1, i - 1) \o SubSeq(list, i + 1, Len(list))

\* line 225: the single candidates, in the order of the map's letters
RECURSIVE single_candidates(_, _)
single_candidates(map, i) ==
    IF i > Len(LETTERS) THEN <<>>
    ELSE (IF Len(map[LETTERS[i]]) = 1 THEN <<map[LETTERS[i]][1]>> ELSE <<>>)
             \o single_candidates(map, i + 1)

\* the inner loop that does not record the letters it solves
RECURSIVE remove_solved_no_append(_, _, _, _)
remove_solved_no_append(map, solved, s, i) ==
    IF i > Len(LETTERS) THEN [map |-> map, solved |-> solved]
    ELSE LET letter == LETTERS[i]
         IN  IF Len(map[letter]) > 1 /\ s \in Elems(map[letter])
             THEN remove_solved_no_append(
                      [map EXCEPT ![letter] = Remove(@, s)], solved, s, i + 1)
             ELSE remove_solved_no_append(map, solved, s, i + 1)

\* lines 228-234: the inner loop over LETTERS for one solved letter s, from
\* letter i on; gives the map and the grown solved_letters
RECURSIVE remove_solved(_, _, _, _)
remove_solved(map, solved, s, i) ==
    IF i > Len(LETTERS) THEN [map |-> map, solved |-> solved]
    ELSE LET letter == LETTERS[i]
         IN  IF Len(map[letter]) > 1 /\ s \in Elems(map[letter])
             THEN LET removed == Remove(map[letter], s)
                  IN  remove_solved(
                          [map EXCEPT ![letter] = removed],
                          IF Len(removed) = 1 THEN Append(solved, removed[1])
                          ELSE solved,
                          s, i + 1)
             ELSE remove_solved(map, solved, s, i + 1)

\* key[i] = v in Python
SetItem(list, i, v) ==
    IF i >= 0 /\ i < Len(list) THEN [list EXCEPT ![i + 1] = v]
    ELSE IF i < 0 /\ i >= 0 - Len(list) THEN [list EXCEPT ![Len(list) + i + 1] = v]
    ELSE list

\* lines 242-245: the loop of create_key_from_map from letter idx on
RECURSIVE create_key_loop(_, _, _)
create_key_loop(k, map, idx) ==
    IF idx > Len(LETTERS) THEN k
    ELSE LET letter == LETTERS[idx]
         IN  create_key_loop(
                 IF Len(map[letter]) = 1
                 THEN SetItem(k, Find(LETTERS, map[letter][1]), letter)
                 ELSE k,
                 map, idx + 1)

create_key_from_map(map) ==
    create_key_loop([i \in 1..Len(LETTERS) |-> "_"], map, 1)

\* get_reduced_map is entered: the copy and the first solved letters.  The
\* second call, made to compare, is handed the map the first call returned.
ReduceStart ==
    /\ \/ pc = "get_reduced_map" /\ run = 0
       \/ pc = "get_reduced_map again" /\ run = 1
    /\ LET arg == IF run = 0 THEN cipher_map ELSE reduced_map
       IN  /\ work_map' = arg
           /\ solved_letters' = single_candidates(arg, 1)
    /\ s_pos' = 0
    /\ run' = run + 1
    /\ pc' = "reducing"
    /\ UNCHANGED <<freq_vars, heap_vars, script, msg, key, ciphertext, cleartext, cipher_text, word_idx,
                   cipher_map, evidence, reduced_map, reduced_twice>>

\* a pass of the loop that stays at the solved letter it has just handled
ReduceStepStays ==
    /\ pc = "reducing"
    /\ s_pos < Len(solved_letters)
    /\ LET r == remove_solved(work_map, solved_letters, solved_letters[s_pos + 1], 1)
       IN  /\ work_map' = r.map
           /\ solved_letters' = r.solved
    /\ s_pos' = s_pos
    /\ UNCHANGED <<freq_vars, heap_vars, pc, script, msg, key, ciphertext, cleartext, cipher_text,
                   word_idx, cipher_map, evidence, reduced_map,
                   reduced_twice, run>>

\* one pass of "for s in solved_letters"
ReduceStep ==
    /\ pc = "reducing"
    /\ s_pos < Len(solved_letters)
    /\ LET r == remove_solved(work_map, solved_letters, solved_letters[s_pos + 1], 1)
       IN  /\ work_map' = r.map
           /\ solved_letters' = r.solved
    /\ s_pos' = s_pos + 1
    /\ UNCHANGED <<freq_vars, heap_vars, pc, script, msg, key, ciphertext, cleartext, cipher_text,
                   word_idx, cipher_map, evidence, reduced_map,
                   reduced_twice, run>>

\* the loop is over: get_reduced_map returns _cipher_map
ReduceReturn ==
    /\ pc = "reducing"
    /\ s_pos = Len(solved_letters)
    /\ IF run = 1
       THEN reduced_map' = work_map /\ UNCHANGED reduced_twice
       ELSE reduced_twice' = work_map /\ UNCHANGED reduced_map
    /\ pc' = "reduced"
    /\ UNCHANGED <<freq_vars, heap_vars, script, msg, key, ciphertext, cleartext, cipher_text, word_idx,
                   cipher_map, evidence, work_map, solved_letters,
                   s_pos, run>>

\* brute_force line 171
CreateKey ==
    /\ pc = "reduced"
    /\ key' = create_key_from_map(reduced_map)
    /\ pc' = "create_key_from_map"
    /\ UNCHANGED <<freq_vars, heap_vars, script, msg, ciphertext, cleartext, solver_vars>>

\* brute_force line 173: the message decrypted with the derived key
BruteForceReturn ==
    /\ pc = "create_key_from_map"
    /\ cleartext' = subs_transform_message(msg, key, "decrypt")
    /\ pc' = "done"
    /\ UNCHANGED <<freq_vars, heap_vars, script, msg, key, ciphertext, solver_vars>>

SolverNext ==
    \/ IncorporateWord
    \/ LetterMappingReturn
    \/ ReduceStart
    \/ ReduceStep
    \/ ReduceReturn
    \/ CreateKey
    \/ BruteForceReturn

SpecSolver == SolverInit /\ [][SolverNext]_vars

\* C6: constraint monotonicity.  Once a ciphertext letter has received
\* evidence, no step makes its candidate list longer or gives it a plaintext
\* letter it did not hold, also after an intersection has emptied the list.
C6_Monotonic ==
    [][\A letter \in evidence :
          /\ Len(cipher_map'[letter]) <= Len(cipher_map[letter])
          /\ Elems(cipher_map'[letter]) \subseteq Elems(cipher_map[letter])]_vars

\* the plaintext letters found at the positions of `letter` in `word`, across
\* all candidate words
SeenAt(letter, word, candidates) ==
    {candidates[n][i] : n \in 1..Len(candidates),
                        i \in {j \in 1..Len(word) : word[j] = letter}}

\* C10: word incorporation rule.  When a word with candidates is incorporated,
\* each letter of it without prior evidence gets exactly the plaintext letters
\* seen at its positions, and each letter with prior evidence gets the
\* intersection of its prior list with them.
C10_IncorporationRule ==
    [][(pc = "get_letter_mapping" /\ word_idx' = word_idx + 1) =>
          LET word == cipher_text[word_idx + 1]
              candidates == en_patterns_get(get_word_pattern(word))
          IN  candidates # None =>
                \A letter \in Elems(word) :
                    IF letter \notin evidence
                    THEN Elems(cipher_map'[letter]) = SeenAt(letter, word, candidates)
                    ELSE Elems(cipher_map'[letter]) =
                            Elems(cipher_map[letter])
                                \cap SeenAt(letter, word, candidates)]_vars

\* what brute_force hands back for a reduced map: the key and the cleartext
Outcome(map) ==
    <<create_key_from_map(map),
      subs_transform_message(msg, create_key_from_map(map), "decrypt")>>

\* C9: contradiction reporting.  When brute_force is done and a letter that
\* received evidence has an empty candidate list, what brute_force hands back
\* differs from what it hands back when that letter is merely unresolved
\* (still has two candidates): the contradiction is reported as such.
C9_ContradictionReported ==
    pc = "done" =>
        \A letter \in evidence :
            reduced_map[letter] = <<>> =>
                <<key, cleartext>> #
                    Outcome([reduced_map EXCEPT ![letter] = <<"A", "I">>])

\* C26: key construction.  The key create_key_from_map returns has 26
\* characters; for every letter c whose candidate list is the one-member [p]
\* the place of p holds c; every other place holds '_': no solved letter is
\* dropped.
C26_KeyFromMap ==
    pc \in {"create_key_from_map", "done"} =>
        /\ Len(key) = Len(LETTERS)
        /\ \A c \in LetterSet :
              Len(reduced_map[c]) = 1 =>
                  key[Find(LETTERS, reduced_map[c][1]) + 1] = c
        /\ \A i \in 1..Len(LETTERS) :
              (\A c \in LetterSet : reduced_map[c] # <<LETTERS[i]>>)
                  => key[i] = "_"

\* the words the dictionary has no candidates for
DictionaryMiss(word) == en_patterns_get(get_word_pattern(word)) = <<>>

\* C11: a dictionary miss is local.  The pass of get_letter_mapping over a
\* word whose pattern has no candidates leaves the constraint map exactly as
\* it was and goes on to the next word: the loop is still running.
C11_MissIsLocal ==
    [][(pc = "get_letter_mapping" /\ word_idx < Len(cipher_text)
            /\ DictionaryMiss(cipher_text[word_idx + 1]))
        => /\ cipher_map' = cipher_map
           /\ word_idx' = word_idx + 1
           /\ pc' = "get_letter_mapping"]_vars

\* the word XX, which has no candidates, has been passed with evidence for X
\* already in the map, and a word is still to come
C11_Witness ==
    /\ pc = "get_letter_mapping"
    /\ word_idx = 2
    /\ Len(cipher_text) = 3
    /\ cipher_text[2] = <<"X", "X">>
    /\ DictionaryMiss(cipher_text[2])
    /\ cipher_map["X"] = <<"A", "I">>

\* the letters of the first n words that the dictionary has candidates for
MatchedLetters(n) ==
    UNION {Elems(cipher_text[i]) :
              i \in {j \in 1..n : ~DictionaryMiss(cipher_text[j])}}

\* C12: frame of word incorporation.  The map starts with every list empty;
\* a pass over a word changes no list of a letter outside that word; and
\* while and after get_letter_mapping runs, every letter that occurs in no
\* dictionary-matched word passed so far has an empty list.
C12_Frame ==
    /\ [](\A letter \in LetterSet \ MatchedLetters(word_idx) :
                cipher_map[letter] = <<>>)
    /\ [][(pc = "get_letter_mapping" /\ word_idx' = word_idx + 1) =>
            \A letter \in LetterSet \ Elems(cipher_text[word_idx + 1]) :
                cipher_map'[letter] = cipher_map[letter]]_vars

\* get_letter_mapping has returned for 'Y XX': X occurs only in a word
\* without candidates and is unconstrained, Y has its evidence
C12_Witness ==
    /\ pc = "get_reduced_map"
    /\ cipher_text = << <<"Y">>, <<"X", "X">> >>
    /\ cipher_map["X"] = <<>>
    /\ cipher_map["Y"] = <<"A", "I">>

----------------------------------------------------------------------------
(* get_reduced_map as a function of any constraint map *)

\* number of ciphertext letters given a candidate list in the maps drawn
MaxMapLetters == 3

\* the plaintext letters the drawn candidate lists are made of
ReduceCandidates == {"E", "T", "A"}

\* lists of distinct candidates
DistinctLists ==
    {list \in BoundedSeq(ReduceCandidates, Cardinality(ReduceCandidates)) :
        \A i, j \in 1..Len(list) : i # j => list[i] # list[j]}

\* constraint maps over the 26 letters whose first MaxMapLetters letters hold
\* any list of distinct candidates
ReduceInputs ==
    LET constrained == {LETTERS[i] : i \in 1..MaxMapLetters}
    IN  {[letter \in LetterSet |->
             IF letter \in constrained THEN f[letter] ELSE <<>>] :
         f \in [constrained -> DistinctLists]}

ReduceInit ==
    /\ pc = "get_reduced_map"
    /\ script = "simple_subs_cipher.py"
    /\ msg = <<>>
    /\ key = <<>>
    /\ ciphertext = <<>>
    /\ cleartext = <<>>
    /\ cipher_text = <<>>
    /\ word_idx = 0
    /\ cipher_map \in ReduceInputs
    /\ evidence = {}
    /\ work_map = <<>>
    /\ solved_letters = <<>>
    /\ s_pos = 0
    /\ reduced_map = <<>>
    /\ reduced_twice = <<>>
    /\ run = 0
    /\ HeapIdle
    /\ FreqIdle

\* the returned map is handed to get_reduced_map once more
ReduceAgain ==
    /\ pc = "reduced"
    /\ run = 1
    /\ pc' = "get_reduced_map again"
    /\ UNCHANGED <<freq_vars, heap_vars, script, msg, key, ciphertext, cleartext, solver_vars>>

ReduceNext == ReduceStart \/ ReduceStep \/ ReduceReturn \/ ReduceAgain

SpecReduce == ReduceInit /\ [][ReduceNext]_vars

\* get_reduced_map under a scheduler that keeps running it: the loop is
\* sequential code, every pass of which is taken when it is due
SpecReduceFair == SpecReduce /\ WF_vars(ReduceNext)

\* C28: propagation terminates and only removes.  Every call of
\* get_reduced_map returns; solved_letters grows by at most one letter for
\* each of the 26 lists; every list of the result holds only members of the
\* list it came from, and a list that was not empty is not empty in the
\* result.
C28_ReduceTerminates ==
    /\ (pc = "reducing") ~> (pc = "reduced")
    /\ [](pc = "reducing" =>
            LET arg == IF run = 1 THEN cipher_map ELSE reduced_map
            IN  Len(solved_letters) - Len(single_candidates(arg, 1))
                    <= Cardinality({c \in LetterSet : Len(arg[c]) > 1}))
    /\ [](pc = "reduced" =>
            LET arg == IF run = 1 THEN cipher_map ELSE reduced_map
                result == IF run = 1 THEN reduced_map ELSE reduced_twice
            IN  \A c \in LetterSet :
                    /\ Elems(result[c]) \subseteq Elems(arg[c])
                    /\ arg[c] # <<>> => result[c] # <<>>)

\* A is solved by E; that leaves T for B, which in turn leaves A for C: two
\* letters were appended to solved_letters and the call returned
C28_Witness ==
    /\ pc = "reduced"
    /\ run = 1
    /\ cipher_map["A"] = <<"E">>
    /\ cipher_map["B"] = <<"E", "T">>
    /\ cipher_map["C"] = <<"E", "T", "A">>
    /\ reduced_map["B"] = <<"T">>
    /\ reduced_map["C"] = <<"A">>
    /\ solved_letters = <<"E", "T", "A">>

\* C7: bijection at the fixpoint.  In the map get_reduced_map returns, the
\* member of every one-member candidate list is in no other letter's list.
C7_SingletonsExclusive ==
    (pc = "reduced" /\ run = 1) =>
        \A c \in LetterSet :
            Len(reduced_map[c]) = 1 =>
                \A d \in LetterSet \ {c} :
                    reduced_map[c][1] \notin Elems(reduced_map[d])

\* C8: propagation idempotence.  get_reduced_map applied to the map it
\* returned returns that map again.
C8_Idempotent ==
    (pc = "reduced" /\ run = 2) => reduced_twice = reduced_map

\* a second call has returned after a first call that solved a letter (A)
\* through one it had solved itself (B, through C)
C8_Witness ==
    /\ pc = "reduced"
    /\ run = 2
    /\ cipher_map["A"] = <<"E", "T", "A">>
    /\ cipher_map["B"] = <<"E", "T">>
    /\ cipher_map["C"] = <<"E">>
    /\ reduced_map["A"] = <<"A">>
    /\ reduced_map["B"] = <<"T">>
    /\ reduced_twice = reduced_map

----------------------------------------------------------------------------
(* Frequency analysis: src/freq_analysis.py *)

ETAOIN == <<"E","T","A","O","I","N","S","H","R","D","L","C","U",
            "M","W","F","G","Y","P","B","V","K","J","X","Q","Z">>

MAX_KEY_LENGTH == 16

\* the lists of a list of lists, one after the other
RECURSIVE Flatten(_)
Flatten(lists) ==
    IF lists = <<>> THEN <<>> ELSE Head(lists) \o Flatten(Tail(lists))

\* only_letters.sub('', s): the characters of s that match [a-zA-Z]
only_letters_sub(s) ==
    SelectSeq(s, LAMBDA char : CharIn(char, LETTERS) \/ CharIn(char, LOWERS))

\* s.upper()
str_upper(s) ==
    IF \A i \in 1..Len(s) : Len(upper(s[i])) = 1
    THEN [i \in 1..Len(s) |-> upper(s[i])[1]]
    ELSE JoinAll([i \in 1..Len(s) |-> upper(s[i])])

\* line 215: ciphertext[j:j+3], shorter at the end of the text
pattern_at(c, j) ==
    SubSeq(c, j + 1, IF j + 3 <= Len(c) THEN j + 3 ELSE Len(c))

\* scan_sequence that takes an end fragment for an occurrence of the pattern
\* it begins
RECURSIVE scan_sequence_with_fragments(_, _, _)
scan_sequence_with_fragments(c, pattern, j) ==
    IF j >= Len(c) THEN <<>>
    ELSE (IF /\ Len(pattern_at(c, j)) <= Len(pattern)
             /\ \A i \in 1..Len(pattern_at(c, j)) : pattern_at(c, j)[i] = pattern[i]
          THEN <<j + 3>> ELSE <<>>)
             \o scan_sequence_with_fragments(c, pattern, j + 1)

\* lines 214-217: sequences[pattern], the j + 3 of the places of pattern from
\* place j on
RECURSIVE scan_sequence(_, _, _)
scan_sequence(c, pattern, j) ==
    IF j >= Len(c) THEN <<>>
    ELSE (IF pattern_at(c, j) = pattern THEN <<j + 3>> ELSE <<>>)
             \o scan_sequence(c, pattern, j + 1)

\* the differences of neighbouring places only
adjacent_distances(sequence) ==
    [k \in 1..(Len(sequence) - 1) |-> sequence[k + 1] - sequence[k]]

\* lines 229-232: x - y for every x and every y < x of the sequence, x outer
pair_distances(sequence) ==
    LET n == Len(sequence)
        pairs == [k \in 1..(n * n) |->
                     <<sequence[((k - 1) \div n) + 1], sequence[((k - 1) % n) + 1]>>]
        kept == SelectSeq(pairs, LAMBDA xy : xy[2] < xy[1])
    IN  [k \in 1..Len(kept) |-> kept[k][1] - kept[k][2]]

\* lines 207-234; the dictionary keeps its patterns in the order of their
\* first place in the text
kasiski_key_lengths(text) ==
    LET c == str_upper(only_letters_sub(text))
        msg_length == Len(c)
        first(j) == \A i \in 0..(j - 1) : pattern_at(c, i) # pattern_at(c, j)
        of(j) == LET sequence == scan_sequence(c, pattern_at(c, j), 0)
                 IN  IF ~first(j) \/ Len(sequence) < 2 THEN <<>>
                     ELSE pair_distances(sequence)
    IN  Flatten([i \in 1..msg_length |-> of(i - 1)])

\* find_factors without the halves of the divisors
find_factors_divisors_only(n, max) ==
    {idx \in 2..max : n % idx = 0}

\* lines 266-279; the result is a Python set
find_factors(n, max) ==
    LET divisors == {idx \in 2..max : n % idx = 0}
        halved == {idx \in divisors : idx \div 2 > 1 /\ idx \div 2 < max}
    IN  divisors \cup {idx \div 2 : idx \in halved}

\* the members of a set of numbers in ascending order
RECURSIVE Ascending(_)
Ascending(S) ==
    IF S = {} THEN <<>>
    ELSE LET least == CHOOSE x \in S : \A y \in S : x <= y
         IN  <<least>> \o Ascending(S \ {least})

\* get_common_factors that returns the first of the most common factors only
get_common_factors_first(dists) ==
    LET factors == Flatten([i \in 1..Len(dists) |->
                               Ascending(find_factors(dists[i], MAX_KEY_LENGTH))])
        count(f) == Cardinality({i \in 1..Len(factors) : factors[i] = f})
        most_common == CHOOSE v \in {count(f) : f \in Elems(factors)} :
                           \A f \in Elems(factors) : count(f) <= v
    IN  IF factors = <<>> THEN [raised |-> TRUE, value |-> <<>>]
        ELSE [raised |-> FALSE,
              value |-> <<CHOOSE i \in Elems(factors) : count(i) = most_common>>]

\* get_common_factors that returns the factors repeated least often
get_common_factors_least(dists) ==
    LET factors == Flatten([i \in 1..Len(dists) |->
                               Ascending(find_factors(dists[i], MAX_KEY_LENGTH))])
        count(f) == Cardinality({i \in 1..Len(factors) : factors[i] = f})
        least_common == CHOOSE v \in {count(f) : f \in Elems(factors)} :
                            \A f \in Elems(factors) : count(f) >= v
    IN  IF factors = <<>> THEN [raised |-> TRUE, value |-> <<>>]
        ELSE [raised |-> FALSE,
              value |-> Ascending({f \in Elems(factors) : count(f) = least_common})]

\* get_common_factors that returns an empty list when there is no factor
get_common_factors_or_empty(dists) ==
    LET factors == Flatten([i \in 1..Len(dists) |->
                               Ascending(find_factors(dists[i], MAX_KEY_LENGTH))])
        count(f) == Cardinality({i \in 1..Len(factors) : factors[i] = f})
        places == SelectSeq([i \in 1..Len(factors) |-> i],
                      LAMBDA i : \A j \in 1..(i - 1) : factors[j] # factors[i])
        factor_count == [k \in 1..Len(places) |->
                            <<factors[places[k]], count(factors[places[k]])>>]
        most_common == CHOOSE v \in {factor_count[k][2] : k \in 1..Len(factor_count)} :
                           \A k \in 1..Len(factor_count) : factor_count[k][2] <= v
        most_likely == SelectSeq(factor_count, LAMBDA kv : kv[2] = most_common)
    IN  IF factor_count = <<>> THEN [raised |-> FALSE, value |-> <<>>]
        ELSE [raised |-> FALSE,
              value |-> [k \in 1..Len(most_likely) |-> most_likely[k][1]]]

\* lines 245-257.  factor_count keeps its keys in the order of their first
\* place in factors; max() of no values raises ValueError (raised).  The order in which
\* extend() walks each set of factors is the interpreter's: ascending here.
get_common_factors(dists) ==
    LET factors == Flatten([i \in 1..Len(dists) |->
                               Ascending(find_factors(dists[i], MAX_KEY_LENGTH))])
        count(f) == Cardinality({i \in 1..Len(factors) : factors[i] = f})
        places == SelectSeq([i \in 1..Len(factors) |-> i],
                      LAMBDA i : \A j \in 1..(i - 1) : factors[j] # factors[i])
        factor_count == [k \in 1..Len(places) |->
                            <<factors[places[k]], count(factors[places[k]])>>]
        most_common == CHOOSE v \in {factor_count[k][2] : k \in 1..Len(factor_count)} :
                           \A k \in 1..Len(factor_count) : factor_count[k][2] <= v
        most_likely == SelectSeq(factor_count, LAMBDA kv : kv[2] = most_common)
    IN  IF factor_count = <<>> THEN [raised |-> TRUE, value |-> <<>>]
        ELSE [raised |-> FALSE,
              value |-> [k \in 1..Len(most_likely) |-> most_likely[k][1]]]

\* longest text handed to kasiski_key_lengths
MaxTextLen == 5

\* an upper-case letter, a lower-case letter and a character that is removed
KasiskiChars == {"A", "b", "-"}

\* main, lines 37-41, for any text
KasiskiInit ==
    /\ pc = "kasiski_key_lengths"
    /\ script = "freq_analysis.py"
    /\ msg = <<>>
    /\ key = <<>>
    /\ ciphertext = <<>>
    /\ cleartext = <<>>
    /\ SolverIdle
    /\ freq_text \in BoundedSeq(KasiskiChars, MaxTextLen)
    /\ number = 0
    /\ max_arg = 0
    /\ distances = <<>>
    /\ returned = <<>>
    /\ subkey_idx = 0
    /\ highest_subkey_score = 0
    /\ highest_subkeys = <<>>

\* line 41: pattern_distances = kasiski_key_lengths(uppercased)
KasiskiReturn ==
    /\ pc = "kasiski_key_lengths"
    /\ distances' = kasiski_key_lengths(freq_text)
    /\ pc' = "get_common_factors"
    /\ UNCHANGED <<script, msg, key, ciphertext, cleartext, solver_vars,
                   freq_text, number, max_arg, returned, subkey_idx,
                   highest_subkey_score, highest_subkeys>>

\* line 44: potential_key_lengths = get_common_factors(pattern_distances)
CommonFactorsReturn ==
    /\ pc = "get_common_factors"
    /\ LET r == get_common_factors(distances)
       IN  /\ returned' = r.value
           /\ pc' = IF r.raised THEN "get_common_factors: ValueError"
                    ELSE "potential_key_lengths"
    /\ UNCHANGED <<script, msg, key, ciphertext, cleartext, solver_vars,
                   freq_text, number, max_arg, distances, subkey_idx,
                   highest_subkey_score, highest_subkeys>>

KasiskiNext == KasiskiReturn \/ CommonFactorsReturn

SpecKasiski == KasiskiInit /\ [][KasiskiNext]_vars

\* C13: Kasiski completeness.  When kasiski_key_lengths has returned, for
\* every two places p < q of the cleaned text (letters only, upper case) at
\* which the same three letters start, q - p is in the returned list.
C13_KasiskiComplete ==
    pc = "get_common_factors" =>
        LET c == str_upper(only_letters_sub(freq_text))
        IN  \A p, q \in 0..(Len(c) - 3) :
                (p < q /\ SubSeq(c, p + 1, p + 3) = SubSeq(c, q + 1, q + 3))
                    => (q - p) \in Elems(distances)

\* AAA starts at 0, 1 and 2 of AAAAA: the distance of the two occurrences
\* that are not neighbours is in the list
C13_Witness ==
    /\ pc = "get_common_factors"
    /\ freq_text = <<"A", "A", "A", "A", "A">>
    /\ distances = <<1, 2, 1>>

\* the sum of a list of numbers
RECURSIVE SeqSum(_)
SeqSum(numbers) ==
    IF numbers = <<>> THEN 0 ELSE Head(numbers) + SeqSum(Tail(numbers))

\* C25: Kasiski distances.  Every value of the returned list is positive and
\* is the gap between two places of the cleaned text at which the same three
\* letters start; each gap is in the list as often as there are such pairs of
\* places, so the fragments of one and two letters at the end of the text add
\* nothing; and the list has k * (k - 1) / 2 values for every three letters
\* that start at k places.
C25_KasiskiDistances ==
    pc \in {"get_common_factors", "potential_key_lengths",
            "get_common_factors: ValueError"} =>
        LET c == str_upper(only_letters_sub(freq_text))
            places == 0..(Len(c) - 3)
            trigram(p) == SubSeq(c, p + 1, p + 3)
            pairs == {pq \in places \X places :
                         pq[1] < pq[2] /\ trigram(pq[1]) = trigram(pq[2])}
            k(p) == Cardinality({q \in places : trigram(q) = trigram(p)})
            first(p) == \A q \in places : q < p => trigram(q) # trigram(p)
        IN  /\ \A i \in 1..Len(distances) :
                  /\ distances[i] > 0
                  /\ \E pq \in pairs : pq[2] - pq[1] = distances[i]
            /\ \A d \in 1..Len(c) :
                  Cardinality({i \in 1..Len(distances) : distances[i] = d})
                      = Cardinality({pq \in pairs : pq[2] - pq[1] = d})
            /\ Len(distances)
                  = SeqSum([i \in 1..Cardinality(places) |->
                               IF first(i - 1)
                               THEN (k(i - 1) * (k(i - 1) - 1)) \div 2 ELSE 0])

\* AAA starts at 0 and 1 of AAAA; the fragments AA and A at the end begin
\* like it and add no distance
C25_Witness ==
    /\ pc = "get_common_factors"
    /\ freq_text = <<"A", "A", "-", "A", "A">>
    /\ distances = <<1>>

\* largest number and largest max handed to find_factors
MaxNumber == 40
MaxFactorArg == 18

\* find_factors called with any number and any max
FindFactorsInit ==
    /\ pc = "find_factors"
    /\ script = "freq_analysis.py"
    /\ msg = <<>>
    /\ key = <<>>
    /\ ciphertext = <<>>
    /\ cleartext = <<>>
    /\ SolverIdle
    /\ freq_text = <<>>
    /\ number \in 0..MaxNumber
    /\ max_arg \in 0..MaxFactorArg
    /\ distances = <<>>
    /\ returned = <<>>
    /\ subkey_idx = 0
    /\ highest_subkey_score = 0
    /\ highest_subkeys = <<>>

FindFactorsReturn ==
    /\ pc = "find_factors"
    /\ returned' = find_factors(number, max_arg)
    /\ pc' = "factors"
    /\ UNCHANGED <<script, msg, key, ciphertext, cleartext, solver_vars,
                   freq_text, number, max_arg, distances, subkey_idx,
                   highest_subkey_score, highest_subkeys>>

SpecFindFactors == FindFactorsInit /\ [][FindFactorsReturn]_vars

\* C14: find_factors(n, max) is the set of the divisors d of n with
\* 2 <= d <= max, united with floor(d / 2) for each of those divisors whose
\* half is in 2..max; every member is in 2..max.
C14_FindFactors ==
    pc = "factors" =>
        LET Divisors == {d \in 2..max_arg : \E m \in 0..number : m * d = number}
            Halves == {d \div 2 : d \in Divisors} \cap 2..max_arg
        IN  /\ returned = Divisors \cup Halves
            /\ \A f \in returned : 2 <= f /\ f <= max_arg

\* find_factors(7, 16) holds 3, the half of the divisor 7, which does not
\* divide 7
C14_Witness ==
    /\ pc = "factors"
    /\ number = 7
    /\ max_arg = MAX_KEY_LENGTH
    /\ returned = {3, 7}

\* largest distance and most distances handed to get_common_factors
MaxDistance == 32
MaxDistances == 2

\* get_common_factors called with any list of positive distances
CommonFactorsInit ==
    /\ pc = "get_common_factors"
    /\ script = "freq_analysis.py"
    /\ msg = <<>>
    /\ key = <<>>
    /\ ciphertext = <<>>
    /\ cleartext = <<>>
    /\ SolverIdle
    /\ freq_text = <<>>
    /\ number = 0
    /\ max_arg = 0
    /\ distances \in BoundedSeq(1..MaxDistance, MaxDistances)
    /\ returned = <<>>
    /\ subkey_idx = 0
    /\ highest_subkey_score = 0
    /\ highest_subkeys = <<>>

SpecCommonFactors == CommonFactorsInit /\ [][CommonFactorsReturn]_vars

\* the number of distances that have f among their factors
FactorCount(f) ==
    Cardinality({i \in 1..Len(distances) :
                    f \in find_factors(distances[i], MAX_KEY_LENGTH)})

\* the factors of all distances
AllFactors ==
    UNION {find_factors(distances[i], MAX_KEY_LENGTH) : i \in 1..Len(distances)}

\* C15: when get_common_factors returns, its list holds exactly the factors
\* whose count over the distances is the largest of all counts, each of them
\* once.
C15_MostCommonFactors ==
    pc = "potential_key_lengths" =>
        /\ Elems(returned) =
               {f \in AllFactors : \A g \in AllFactors : FactorCount(g) <= FactorCount(f)}
        /\ \A i, j \in 1..Len(returned) : i # j => returned[i] # returned[j]

\* for the distances 6, 6 the factors 2, 3 and 6 tie with count 2 and are
\* all returned
C15_Witness ==
    /\ pc = "potential_key_lengths"
    /\ distances = <<6, 6>>
    /\ Elems(returned) = {2, 3, 6}
    /\ Len(returned) = 3

\* C30: no factors.  When the list of distances is empty or no distance has
\* a divisor in 2..MAX_KEY_LENGTH, get_common_factors ends in the ValueError
\* of max() of no values; it ends so in no other case, and a list it returns
\* is never empty.
C30_NoFactorsRaise ==
    pc # "get_common_factors" =>
        LET none == \A i \in 1..Len(distances) :
                        \A f \in 2..MAX_KEY_LENGTH : distances[i] % f # 0
        IN  /\ none <=> pc = "get_common_factors: ValueError"
            /\ pc = "potential_key_lengths" => returned # <<>>

\* the distances 1 and 17, a prime above 16, have no factor in 2..16
C30_Witness ==
    /\ pc = "get_common_factors: ValueError"
    /\ distances = <<1, 17>>

\* C16: key-length recovery.  For every period L in 2..MAX_KEY_LENGTH, when
\* the list of distances is not empty and each distance is a multiple of L,
\* get_common_factors returns a list that holds L or a proper divisor of L.
C16_KeyLengthRecovery ==
    pc # "get_common_factors" =>
        \A L \in 2..MAX_KEY_LENGTH :
            (distances # <<>> /\ \A i \in 1..Len(distances) : distances[i] % L = 0)
                => /\ pc = "potential_key_lengths"
                   /\ \E f \in Elems(returned) : f <= L /\ L % f = 0

\* the distances 16 and 32 are multiples of 16, 8, 4 and 2, which all have
\* count 2 and are returned
C16_Witness ==
    /\ pc = "potential_key_lengths"
    /\ distances = <<16, 32>>
    /\ 16 \in Elems(returned)

\* the inner loop walking the text one place at a time
RECURSIVE interval_column_step_one(_, _, _)
interval_column_step_one(text, j, interval) ==
    IF j >= Len(text) THEN <<>>
    ELSE <<text[j + 1]>> \o interval_column_step_one(text, j + 1, interval)

\* lines 294-298: text[j] for j in range(j, len(text), interval)
RECURSIVE interval_column(_, _, _)
interval_column(text, j, interval) ==
    IF j >= Len(text) THEN <<>>
    ELSE <<text[j + 1]>> \o interval_column(text, j + interval, interval)

\* lines 289-300; range(interval) is empty for an interval below 1
get_letter_at_interval(text, interval) ==
    [i \in 1..interval |-> interval_column(text, i - 1, interval)]

\* longest text and largest interval handed to get_letter_at_interval
MaxIntervalTextLen == 4
MaxInterval == 5

IntervalChars == {"A", "B"}

\* the text of the docstring example
IntervalExample == SubSeq(LETTERS, 1, 12)

\* get_letter_at_interval called with any text and any interval
IntervalInit ==
    /\ pc = "get_letter_at_interval"
    /\ script = "freq_analysis.py"
    /\ msg = <<>>
    /\ key = <<>>
    /\ ciphertext = <<>>
    /\ cleartext = <<>>
    /\ SolverIdle
    /\ freq_text \in BoundedSeq(IntervalChars, MaxIntervalTextLen) \cup {IntervalExample}
    /\ number \in 0..MaxInterval
    /\ max_arg = 0
    /\ distances = <<>>
    /\ returned = <<>>
    /\ subkey_idx = 0
    /\ highest_subkey_score = 0
    /\ highest_subkeys = <<>>

\* line 47: interval_string = get_letter_at_interval(uppercased, ...)
LetterAtIntervalReturn ==
    /\ pc = "get_letter_at_interval"
    /\ returned' = get_letter_at_interval(freq_text, number)
    /\ pc' = "interval_string"
    /\ UNCHANGED <<script, msg, key, ciphertext, cleartext, solver_vars,
                   freq_text, number, max_arg, distances, subkey_idx,
                   highest_subkey_score, highest_subkeys>>

SpecInterval == IntervalInit /\ [][LetterAtIntervalReturn]_vars

\* C17: for n >= 1, get_letter_at_interval(text, n) is a list of n strings;
\* string i has as many characters as the text has places i, i + n, i + 2n,
\* ..., and its k-th character is the one at place i + k * n; the lengths of
\* the strings add up to the length of the text.
C17_LetterAtInterval ==
    (pc = "interval_string" /\ number >= 1) =>
        /\ Len(returned) = number
        /\ \A i \in 0..(number - 1) :
              /\ Len(returned[i + 1]) =
                     Cardinality({j \in 0..(Len(freq_text) - 1) : j % number = i})
              /\ \A k \in 0..(Len(returned[i + 1]) - 1) :
                     returned[i + 1][k + 1] = freq_text[i + k * number + 1]
        /\ Len(Flatten(returned)) = Len(freq_text)

\* ('ABCDEFGHIJKL', 4) gives ['AEI', 'BFJ', 'CGK', 'DHL']
C17_Witness ==
    /\ pc = "interval_string"
    /\ freq_text = <<"A","B","C","D","E","F","G","H","I","J","K","L">>
    /\ number = 4
    /\ returned = << <<"A","E","I">>, <<"B","F","J">>,
                     <<"C","G","K">>, <<"D","H","L">> >>

\* lines 143-152: the dictionary of the 26 letters, as a function
count_letters(text) ==
    LET upper_text == str_upper(text)
    IN  [letter \in LetterSet |->
            Cardinality({i \in 1..Len(upper_text) : upper_text[i] = letter})]

\* s[::-1]
Reverse(s) == [i \in 1..Len(s) |-> s[Len(s) + 1 - i]]

\* the members of a set of numbers in descending order
Descending(S) == Reverse(Ascending(S))

\* sort_by_frequency with each group in the order of ETAOIN
sort_by_frequency_forward(letter_freq) ==
    LET group(v) == SelectSeq(ETAOIN, LAMBDA k : letter_freq[k] = v)
        values == Descending({letter_freq[k] : k \in LetterSet})
    IN  Flatten([n \in 1..Len(values) |-> group(values[n])])

\* lines 163-177: the letters grouped by their count, each group sorted by
\* ETAOIN.find with reverse=True, the groups in descending order of count
sort_by_frequency(letter_freq) ==
    LET group(v) == SelectSeq(Reverse(ETAOIN), LAMBDA k : letter_freq[k] = v)
        values == Descending({letter_freq[k] : k \in LetterSet})
    IN  Flatten([n \in 1..Len(values) |-> group(values[n])])

\* s[:6] and s[-6:]
FirstSix(s) == SubSeq(s, 1, IF Len(s) < 6 THEN Len(s) ELSE 6)
LastSix(s) == SubSeq(s, IF Len(s) < 6 THEN 1 ELSE Len(s) - 5, Len(s))

\* get_english_score without the loop over the least common letters
get_english_score_most_common(frequency_list) ==
    Cardinality({i \in 1..6 : CharIn(FirstSix(ETAOIN)[i], FirstSix(frequency_list))})

\* lines 182-194
get_english_score(frequency_list) ==
    Cardinality({i \in 1..6 : CharIn(FirstSix(ETAOIN)[i], FirstSix(frequency_list))})
        + Cardinality({i \in 1..6 : CharIn(LastSix(ETAOIN)[i], LastSix(frequency_list))})

\* longest text handed to count_letters
MaxFreqTextLen == 4

FreqChars == {"E", "t", "Z", " "}

\* lines 57-58 for any text
SortInit ==
    /\ pc = "sort_by_frequency"
    /\ script = "freq_analysis.py"
    /\ msg = <<>>
    /\ key = <<>>
    /\ ciphertext = <<>>
    /\ cleartext = <<>>
    /\ SolverIdle
    /\ freq_text \in BoundedSeq(FreqChars, MaxFreqTextLen)
    /\ number = 0
    /\ max_arg = 0
    /\ distances = <<>>
    /\ returned = <<>>
    /\ subkey_idx = 0
    /\ highest_subkey_score = 0
    /\ highest_subkeys = <<>>

\* lines 57-58: sort_by_frequency(count_letters(decrypted))
SortByFrequencyReturn ==
    /\ pc = "sort_by_frequency"
    /\ returned' = sort_by_frequency(count_letters(freq_text))
    /\ pc' = "sorted_by_frequency"
    /\ UNCHANGED <<script, msg, key, ciphertext, cleartext, solver_vars,
                   freq_text, number, max_arg, distances, subkey_idx,
                   highest_subkey_score, highest_subkeys>>

SpecSort == SortInit /\ [][SortByFrequencyReturn]_vars

\* the returned string is a permutation of the 26 letters in non-increasing
\* order of count
SortedByCount ==
    /\ Len(returned) = 26
    /\ Elems(returned) = LetterSet
    /\ \A i, j \in 1..26 :
          i < j => count_letters(freq_text)[returned[i]]
                       >= count_letters(freq_text)[returned[j]]

\* C19 as stated: the result is a permutation in non-increasing order of
\* count, and of two letters with the same count the one earlier in ETAOIN
\* comes first.
C19_TieBreakAsStated ==
    pc = "sorted_by_frequency" =>
        /\ SortedByCount
        /\ \A i, j \in 1..26 :
              (i < j /\ count_letters(freq_text)[returned[i]]
                            = count_letters(freq_text)[returned[j]])
                  => Find(ETAOIN, returned[i]) < Find(ETAOIN, returned[j])

\* C19, amended: the result is a permutation in non-increasing order of
\* count, and of two letters with the same count the one later in ETAOIN
\* comes first.
C19_TieBreakReversed ==
    pc = "sorted_by_frequency" =>
        /\ SortedByCount
        /\ \A i, j \in 1..26 :
              (i < j /\ count_letters(freq_text)[returned[i]]
                            = count_letters(freq_text)[returned[j]])
                  => Find(ETAOIN, returned[i]) > Find(ETAOIN, returned[j])

\* for 'Et' the letters T and E tie with count 1 and come in that order,
\* then the letters with count 0 from Z on
C19_Witness ==
    /\ pc = "sorted_by_frequency"
    /\ freq_text = <<"E", "t">>
    /\ SubSeq(returned, 1, 4) = <<"T", "E", "Z", "Q">>

\* ETAOIN with the letters at places i and j exchanged, then rotated by r
Permuted(i, j, r) ==
    LET swapped == [k \in 1..26 |->
                       IF k = i THEN ETAOIN[j] ELSE IF k = j THEN ETAOIN[i]
                       ELSE ETAOIN[k]]
    IN  [k \in 1..26 |-> swapped[((k - 1 + r) % 26) + 1]]

\* the permutations of the 26 letters handed to get_english_score
ScoreInputs == {Permuted(i, j, r) : i \in 1..26, j \in 1..26, r \in 0..25}

\* line 59 for a string sort_by_frequency can return
ScoreInit ==
    /\ pc = "get_english_score"
    /\ script = "freq_analysis.py"
    /\ msg = <<>>
    /\ key = <<>>
    /\ ciphertext = <<>>
    /\ cleartext = <<>>
    /\ SolverIdle
    /\ freq_text \in ScoreInputs
    /\ number = 0
    /\ max_arg = 0
    /\ distances = <<>>
    /\ returned = <<>>
    /\ subkey_idx = 0
    /\ highest_subkey_score = 0
    /\ highest_subkeys = <<>>

\* line 59: score = get_english_score(sorted_by_frequency)
EnglishScoreReturn ==
    /\ pc = "get_english_score"
    /\ number' = get_english_score(freq_text)
    /\ pc' = "score"
    /\ UNCHANGED <<script, msg, key, ciphertext, cleartext, solver_vars,
                   freq_text, max_arg, distances, returned, subkey_idx,
                   highest_subkey_score, highest_subkeys>>

SpecScore == ScoreInit /\ [][EnglishScoreReturn]_vars

\* C20: for a permutation r of the 26 letters the score is between 0 and 12,
\* it is the number of letters the first six of r share with the first six
\* of ETAOIN plus the number the last six of r share with the last six of
\* ETAOIN, and the score of ETAOIN itself is 12.
C20_ScoreBounds ==
    pc = "score" =>
        /\ 0 <= number /\ number <= 12
        /\ number =
               Cardinality({freq_text[k] : k \in 1..6} \cap {ETAOIN[k] : k \in 1..6})
                 + Cardinality({freq_text[k] : k \in 21..26}
                                   \cap {ETAOIN[k] : k \in 21..26})
        /\ (freq_text = ETAOIN => number = 12)

\* ETAOIN itself has been scored, with 12
C20_Witness ==
    /\ pc = "score"
    /\ freq_text = ETAOIN
    /\ number = 12

\* longest column handed to the loop over the subkeys
MaxColumnLen == 2

ColumnChars == {"A", "E", "Z"}

\* main, lines 52-54, for any column of interval_string
SubkeysInit ==
    /\ pc = "subkeys"
    /\ script = "freq_analysis.py"
    /\ msg = <<>>
    /\ key = <<>>
    /\ ciphertext = <<>>
    /\ cleartext = <<>>
    /\ SolverIdle
    /\ freq_text \in BoundedSeq(ColumnChars, MaxColumnLen)
    /\ number = 0
    /\ max_arg = 0
    /\ distances = <<>>
    /\ returned = <<>>
    /\ subkey_idx = 0
    /\ highest_subkey_score = 0
    /\ highest_subkeys = <<>>

\* lines 55-68: one pass of the loop over LETTERS; decrypt is
\* vigenere_cipher.decrypt, whose IndexError ends the script
SubkeyStep ==
    /\ pc = "subkeys"
    /\ subkey_idx < Len(LETTERS)
    /\ LET subkey == LETTERS[subkey_idx + 1]
           decrypted == vigenere_transform_message(freq_text, <<subkey>>, "decrypt")
       IN  IF decrypted = IndexError
           THEN /\ pc' = "decrypt: IndexError"
                /\ UNCHANGED <<number, subkey_idx, highest_subkey_score,
                               highest_subkeys>>
           ELSE LET score == get_english_score(
                                 sort_by_frequency(count_letters(decrypted)))
                IN  /\ number' = score
                    /\ highest_subkeys' =
                           IF score > highest_subkey_score THEN <<subkey>>
                           ELSE IF score = highest_subkey_score
                                THEN Append(highest_subkeys, subkey)
                                ELSE highest_subkeys
                    /\ highest_subkey_score' =
                           IF score > highest_subkey_score THEN score
                           ELSE highest_subkey_score
                    /\ subkey_idx' = subkey_idx + 1
                    /\ pc' = pc
    /\ UNCHANGED <<script, msg, key, ciphertext, cleartext, solver_vars,
                   freq_text, max_arg, distances, returned>>

\* line 70: potential_subkeys.extend(highest_subkeys)
SubkeysDone ==
    /\ pc = "subkeys"
    /\ subkey_idx = Len(LETTERS)
    /\ returned' = returned \o highest_subkeys
    /\ pc' = "potential_subkeys"
    /\ UNCHANGED <<script, msg, key, ciphertext, cleartext, solver_vars,
                   freq_text, number, max_arg, distances, subkey_idx,
                   highest_subkey_score, highest_subkeys>>

SubkeysNext == SubkeyStep \/ SubkeysDone

SpecSubkeys == SubkeysInit /\ [][SubkeysNext]_vars

\* the English score of a column shifted back by one letter
ShiftScore(column, subkey) ==
    get_english_score(sort_by_frequency(count_letters(
        [i \in 1..Len(column) |->
            LETTERS[((Find(LETTERS, column[i]) - Find(LETTERS, subkey)) % 26) + 1]])))

\* C18: per-column subkey search.  For a column of one or more upper-case
\* letters the loop over the 26 subkeys raises no error, and when it is done
\* highest_subkeys holds exactly the subkeys whose score is the largest of
\* the 26 scores, and is not empty.
C18_SubkeySearch ==
    freq_text # <<>> =>
        /\ pc # "decrypt: IndexError"
        /\ pc = "potential_subkeys" =>
              /\ Elems(highest_subkeys) =
                     {LETTERS[i] : i \in {j \in 1..26 :
                         \A k \in 1..26 :
                             ShiftScore(freq_text, LETTERS[k])
                                 <= ShiftScore(freq_text, LETTERS[j])}}
              /\ highest_subkeys # <<>>

----------------------------------------------------------------------------
(* English detection: src/is_lang.py *)

(* Python floats are IEEE 754 doubles.  A positive double is modelled as its *)
(* 53 significand bits, most significant first, and the exponent e of its    *)
(* last bit: the value is the number the bits spell, times 2^e.              *)
SIGNIFICAND_BITS == 53

\* bits without their leading zeros
StripZeros(bits) ==
    LET ones == {i \in 1..Len(bits) : bits[i] = 1}
    IN  IF ones = {} THEN <<>>
        ELSE SubSeq(bits, CHOOSE i \in ones : \A j \in ones : i <= j, Len(bits))

\* the bits of the sum of two numbers given by their bits
bit_add(a, b) ==
    LET n == IF Len(a) > Len(b) THEN Len(a) ELSE Len(b)
        A(i) == IF i < Len(a) THEN a[Len(a) - i] ELSE 0
        B(i) == IF i < Len(b) THEN b[Len(b) - i] ELSE 0
        carry(j) == IF \E i \in 0..(j - 1) :
                          /\ A(i) + B(i) = 2
                          /\ \A k \in (i + 1)..(j - 1) : A(k) + B(k) >= 1
                    THEN 1 ELSE 0
    IN  StripZeros([i \in 1..(n + 1) |->
                       (A(n + 1 - i) + B(n + 1 - i) + carry(n + 1 - i)) % 2])

\* round-to-nearest-even of the number bits * 2^e (plus a little more when
\* sticky) to a double; bits start with a 1
float_round(bits, e, sticky) ==
    IF Len(bits) <= SIGNIFICAND_BITS
    THEN [m |-> bits \o [i \in 1..(SIGNIFICAND_BITS - Len(bits)) |-> 0],
          e |-> e - (SIGNIFICAND_BITS - Len(bits))]
    ELSE LET kept == SubSeq(bits, 1, SIGNIFICAND_BITS)
             rest == SubSeq(bits, SIGNIFICAND_BITS + 1, Len(bits))
             more == sticky \/ \E i \in 2..Len(rest) : rest[i] = 1
             up == rest[1] = 1 /\ (more \/ kept[SIGNIFICAND_BITS] = 1)
             raised == IF up THEN bit_add(kept, <<1>>) ELSE kept
             shift == Len(bits) - SIGNIFICAND_BITS
         IN  IF Len(raised) > SIGNIFICAND_BITS
             THEN [m |-> SubSeq(raised, 1, SIGNIFICAND_BITS), e |-> e + shift + 1]
             ELSE [m |-> raised, e |-> e + shift]

\* 2^i modulo t
RECURSIVE pow2mod(_, _)
pow2mod(i, t) ==
    IF i = 0 THEN 1 % t
    ELSE LET h == pow2mod(i \div 2, t)
         IN  (h * h * (IF i % 2 = 1 THEN 2 ELSE 1)) % t

\* line 50, words_found / total_words for 1 <= m <= t: the correctly rounded
\* quotient, by long division of m * 2^k, the first doubling of m that is not
\* below t
float_div(m, t) ==
    LET k == CHOOSE k \in 0..20 : m * 2^k >= t /\ m * 2^k < 2 * t
        rem(i) == (((m * 2^k) % t) * pow2mod(i, t)) % t
        quotient == [i \in 1..(SIGNIFICAND_BITS + 1) |->
                        IF i = 1 \/ 2 * rem(i - 2) >= t THEN 1 ELSE 0]
    IN  float_round(quotient, 0 - k - SIGNIFICAND_BITS, rem(SIGNIFICAND_BITS) # 0)

\* line 50, f * 100 for a double f: the correctly rounded product; 100 is
\* 64 + 32 + 4
float_times_100(f) ==
    float_round(bit_add(bit_add(f.m \o <<0, 0, 0, 0, 0, 0>>,
                                f.m \o <<0, 0, 0, 0, 0>>),
                        f.m \o <<0, 0>>),
                f.e, FALSE)

\* line 58, f >= p for a double f with a negative exponent and a natural
\* p < 128; Python compares a float with an int by value
float_ge(f, p) ==
    LET a == StripZeros(f.m)
        b == StripZeros([i \in 1..7 |-> (p \div 2^(7 - i)) % 2]
                            \o [i \in 1..(0 - f.e) |-> 0])
    IN  IF Len(a) # Len(b) THEN Len(a) > Len(b)
        ELSE \/ a = b
             \/ \E i \in 1..Len(a) :
                   /\ a[i] > b[i]
                   /\ \A j \in 1..(i - 1) : a[j] = b[j]

\* line 35
not_letters == <<",", ".", ";", " ", "\"", "'", "?", "!", "@", "#", "$", "%",
                 "^", "&", "*", "(", ")", "_", "+", "=", "-", "{", "}", "[",
                 "]", "0", "1", "2", "3", "4", "5", "6", "7", "8", "9">>

\* lines 15-24 and 32: the words of en_dictionary.txt, a file of upper-case
\* words, one per line; two words stand for it
en_dictionary == {<<"A">>, <<"A", "T">>}

\* s.strip(chars): s without its leading and trailing characters of chars
py_strip(s, chars) ==
    LET kept == {i \in 1..Len(s) : ~CharIn(s[i], chars)}
    IN  IF kept = {} THEN <<>>
        ELSE SubSeq(s, CHOOSE i \in kept : \A j \in kept : i <= j,
                       CHOOSE i \in kept : \A j \in kept : i >= j)

\* s.split(): the maximal runs of characters that are not white space, in
\* order; the space is the white space of the texts modelled.  A text that
\* holds a space is split at one of its spaces, the halves split in turn.
RECURSIVE py_split(_)
py_split(s) ==
    IF \A i \in 1..Len(s) : s[i] # " "
    THEN IF s = <<>> THEN <<>> ELSE <<s>>
    ELSE LET c == (Len(s) + 1) \div 2
             space(i) == i >= 1 /\ i <= Len(s) /\ s[i] = " "
             d == CHOOSE d \in 0..Len(s) : space(c + d) \/ space(c - d)
             at == IF space(c + d) THEN c + d ELSE c - d
         IN  py_split(SubSeq(s, 1, at - 1)) \o py_split(SubSeq(s, at + 1, Len(s)))

\* lines 27-63
is_english(text, word_percent) ==
    LET sample == py_split(str_upper(py_strip(text, not_letters)))
        total_words == Len(sample)
        words_found == Cardinality({i \in 1..total_words :
                                        sample[i] \in en_dictionary})
    IN  IF words_found = 0 THEN FALSE
        ELSE float_ge(float_times_100(float_div(words_found, total_words)),
                      word_percent)

MaxEnglishLen == 4
MaxTokens == 50
EnglishChars == {"a", "T", " ", ","}
WordPercents == {0, 50, 58, 60, 100}

\* a text of t words, the first m of them the word a
TokenText(m, t) ==
    [i \in 1..(2 * t - 1) |->
        IF i % 2 = 0 THEN " " ELSE IF i <= 2 * m THEN "a" ELSE "t"]

EnglishInit ==
    /\ pc = "is_english"
    /\ script = "is_lang.py"
    /\ msg \in BoundedSeq(EnglishChars, MaxEnglishLen)
                   \cup {TokenText(m, t) : m \in 0..MaxTokens, t \in 1..MaxTokens}
    /\ key \in WordPercents
    /\ ciphertext = <<>>
    /\ cleartext = <<>>
    /\ SolverIdle
    /\ FreqIdle

IsEnglishReturn ==
    /\ pc = "is_english"
    /\ pc' = IF is_english(msg, key) THEN "True" ELSE "False"
    /\ UNCHANGED <<script, msg, key, ciphertext, cleartext, not_cipher_vars>>

SpecEnglish == EnglishInit /\ [][IsEnglishReturn]_vars

\* C24: is_english returns False when no word of the sample is in the word
\* set, and otherwise returns True exactly when
\* matches * 100 >= word_percent * total, total the number of words of the
\* sample and matches the number of them in the word set
C24_EnglishOracle ==
    pc \in {"True", "False"} =>
        LET sample == py_split(str_upper(py_strip(msg, not_letters)))
            total == Len(sample)
            matches == Cardinality({i \in 1..total : sample[i] \in en_dictionary})
        IN  (pc = "True") = (matches > 0 /\ matches * 100 >= key * total)

----------------------------------------------------------------------------
(* Interactive brute force: brute_force of src/ciphers/caesar-chiper.py and *)
(* src/ciphers/affine_cipher.py.  ciphertext is the argument, key the loop  *)
(* variable i, cleartext the decryption at i, msg the last response typed.  *)

MaxForceLen == 2

ForceScripts == {"ciphers/caesar-chiper.py", "ciphers/affine_cipher.py"}

ForceChars == {"D", "W", " "}

\* what the user may type at the prompt
Responses == {<<>>, <<"n">>, <<"N">>, <<"n", "o">>, <<"y">>, <<"y", "n">>}

\* range(len(SYMBOLS)) and range(1, SYMBOL_LEN ** 2)
force_range(s) ==
    IF s = "ciphers/caesar-chiper.py" THEN 0..(Len(SYMBOLS) - 1)
    ELSE 1..(SYMBOL_LEN * SYMBOL_LEN - 1)

\* response.lower().startswith('n') that holds of the response n only
answers_no_exactly(response) ==
    [i \in 1..Len(response) |-> lower(response[i])] = <<"n">>

\* response.lower().startswith('n')
answers_no(response) ==
    LET lowered == [i \in 1..Len(response) |-> lower(response[i])]
    IN  Len(lowered) >= 1 /\ lowered[1] = "n"

ForceInit ==
    /\ pc = "brute_force"
    /\ script \in ForceScripts
    /\ ciphertext \in BoundedSeq(ForceChars, MaxForceLen)
    /\ key = IF script = "ciphers/caesar-chiper.py" THEN 0 ELSE 1
    /\ cleartext = <<>>
    /\ msg = <<>>
    /\ SolverIdle
    /\ FreqIdle

\* affine lines 205-207: a key that validate_key rejects is passed over
ForceSkip ==
    /\ pc = "brute_force"
    /\ script = "ciphers/affine_cipher.py"
    /\ key \in force_range(script)
    /\ validate_key(key) = None
    /\ key' = key + 1
    /\ UNCHANGED <<pc, script, msg, ciphertext, cleartext, not_cipher_vars>>

\* one pass of the loop up to the prompt: decrypt with i and test the result
ForceTry ==
    /\ pc = "brute_force"
    /\ key \in force_range(script)
    /\ script = "ciphers/affine_cipher.py" => validate_key(key) # None
    /\ LET result == IF script = "ciphers/caesar-chiper.py"
                     THEN caesar_decrypt(ciphertext, key)
                     ELSE affine_decrypt(ciphertext, key).text
       IN  /\ cleartext' = result
           /\ IF is_english(result, 60)
              THEN pc' = "prompt" /\ key' = key
              ELSE pc' = "brute_force" /\ key' = key + 1
    /\ UNCHANGED <<script, msg, ciphertext, not_cipher_vars>>

\* the user answers the prompt: caesar lines 164-166 and 171-173, affine lines
\* 215-218
ForceRespond ==
    /\ pc = "prompt"
    /\ \E response \in Responses :
          /\ msg' = response
          /\ IF answers_no(response)
             THEN pc' = "exit" /\ key' = key
             ELSE pc' = "brute_force" /\ key' = key + 1
    /\ UNCHANGED <<script, ciphertext, cleartext, not_cipher_vars>>

\* the range is used up: 'Reached end of text'
ForceEnd ==
    /\ pc = "brute_force"
    /\ key \notin force_range(script)
    /\ pc' = "end"
    /\ UNCHANGED <<script, msg, key, ciphertext, cleartext, not_cipher_vars>>

ForceNext == ForceSkip \/ ForceTry \/ ForceRespond \/ ForceEnd

SpecForce == ForceInit /\ [][ForceNext]_vars

\* C23: keys are tried in ascending order, one after the other; the user is
\* prompted only at a cleartext that is_english accepts; a response that
\* begins with n or N ends the program at that key, and nothing happens after
\* the exit; any other response continues the scan with the next key
C23_Cancellation ==
    /\ [](pc = "prompt" => is_english(cleartext, 60))
    /\ [][/\ key' \in {key, key + 1}
          /\ pc # "exit"
          /\ pc = "prompt" =>
                IF msg' # <<>> /\ msg'[1] \in {"n", "N"}
                THEN pc' = "exit" /\ key' = key /\ cleartext' = cleartext
                ELSE pc' = "brute_force" /\ key' = key + 1]_vars

\* the scan of DW with the shift cipher was cancelled at key 3, where the
\* cleartext is AT, by the response no
C23_Witness ==
    /\ pc = "exit"
    /\ script = "ciphers/caesar-chiper.py"
    /\ ciphertext = <<"D", "W">>
    /\ key = 3
    /\ cleartext = <<"A", "T">>
    /\ msg = <<"n", "o">>

----------------------------------------------------------------------------
(* Key derivation: derive_key and its caller in main, of both shift scripts. *)
(* msg is the cleartext argument, ciphertext the ciphertext argument, key    *)
(* the loop variable i.                                                     *)

DeriveInit ==
    /\ pc = "derive_key"
    /\ script \in CaesarScripts
    /\ msg \in BoundedSeq(CaesarChars, MaxMsgLen)
    /\ ciphertext \in BoundedSeq(CaesarChars, MaxMsgLen)
    /\ key = 0
    /\ cleartext = <<>>
    /\ SolverIdle
    /\ FreqIdle

\* one pass of the loop: encrypt the cleartext with i and compare; a match
\* returns i to main
DeriveTry ==
    /\ pc = "derive_key"
    /\ key \in 0..(Len(SYMBOLS) - 1)
    /\ LET result == IF script = "caesar-chiper.py"
                     THEN encrypt_msg(msg, key, SYMBOLS)
                     ELSE caesar_encrypt(msg, key)
       IN  IF result = IndexError
           THEN pc' = "derive_key: IndexError" /\ key' = key
           ELSE IF result = ciphertext
                THEN pc' = "main: key" /\ key' = key
                ELSE pc' = "derive_key" /\ key' = key + 1
    /\ UNCHANGED <<script, msg, ciphertext, cleartext, not_cipher_vars>>

\* the range is used up: the message is printed and None returned, for which
\* main prints nothing more
DeriveNoMatch ==
    /\ pc = "derive_key"
    /\ key = Len(SYMBOLS)
    /\ pc' = "printed: These messages don't match"
    /\ UNCHANGED <<script, msg, key, ciphertext, cleartext, not_cipher_vars>>

\* main: if key: print(f'The key used to encrypt this message was {key}')
MainReport ==
    /\ pc = "main: key"
    /\ pc' = IF key # 0 THEN "printed: The key used to encrypt this message was"
             ELSE "printed nothing"
    /\ UNCHANGED <<script, msg, key, ciphertext, cleartext, not_cipher_vars>>

DeriveNext == DeriveTry \/ DeriveNoMatch \/ MainReport

SpecDerive == DeriveInit /\ [][DeriveNext]_vars

\* the shifts of range(len(SYMBOLS)) that encrypt msg to ciphertext
MatchingKeys ==
    {K \in 0..(Len(SYMBOLS) - 1) :
        (IF script = "caesar-chiper.py" THEN encrypt_msg(msg, K, SYMBOLS)
         ELSE caesar_encrypt(msg, K)) = ciphertext}

\* C27: key derivation.  The key derive_key returns is the least shift of the
\* range that encrypts the cleartext to the ciphertext, and the tool reports
\* it, the key 0 included; the no-match message is printed exactly when no
\* shift of the range does, after all of them were tried.
C27_DeriveKey ==
    /\ pc \in {"main: key", "printed nothing",
               "printed: The key used to encrypt this message was"} =>
          key \in MatchingKeys /\ \A K \in MatchingKeys : key <= K
    /\ pc = "printed: These messages don't match" =>
          MatchingKeys = {} /\ key = Len(SYMBOLS)
    /\ pc # "printed nothing"

----------------------------------------------------------------------------
(* Object identity in src/simple_subs_cipher.py.  A map is a dict object    *)
(* whose values are list objects; a variable holds the address of an        *)
(* object.  Memory is a record of the dict objects and the list objects,    *)
(* each a sequence indexed by address; a dict object maps each letter to    *)
(* the address of a list.  The functions below take memory and addresses    *)
(* and give the memory they leave and the address they return.              *)

\* the value of the map at address d: its lists, by letter
map_value(dicts, lists, d) ==
    [letter \in LetterSet |-> lists[dicts[d][letter]]]

\* a new dict with 26 new lists that hold the given values:
\* create_letter_map() followed by appends to its lists
new_map_object(m, values) ==
    [dicts |-> Append(m.dicts,
                      [letter \in LetterSet |->
                          Len(m.lists) + Find(LETTERS, letter) + 1]),
     lists |-> m.lists \o [i \in 1..Len(LETTERS) |-> values[LETTERS[i]]],
     ref |-> Len(m.dicts) + 1]

\* copy.copy(d): a new dict that holds the lists of d themselves
shallow_copy(m, d) ==
    [dicts |-> Append(m.dicts, m.dicts[d]),
     lists |-> m.lists,
     ref |-> Len(m.dicts) + 1]

\* copy.deepcopy(d): a new dict with a new list for every list of d (one new
\* list for each list object, however many letters hold it)
deepcopy(m, d) ==
    LET old == m.dicts[d]
        first(letter) ==
            CHOOSE i \in 1..Len(LETTERS) :
                /\ old[LETTERS[i]] = old[letter]
                /\ \A j \in 1..(i - 1) : old[LETTERS[j]] # old[letter]
    IN  [dicts |-> Append(m.dicts,
                          [letter \in LetterSet |-> Len(m.lists) + first(letter)]),
         lists |-> m.lists \o [i \in 1..Len(LETTERS) |-> m.lists[old[LETTERS[i]]]],
         ref |-> Len(m.dicts) + 1]

\* lines 208-216: the loop of combine_maps from letter i on; c is
\* combined_map.  The appends of line 213 change the list of combined_map in
\* place; line 216 makes a new list and puts it in combined_map.
RECURSIVE combine_maps_loop(_, _, _, _, _)
combine_maps_loop(m, a, b, c, i) ==
    IF i > Len(LETTERS) THEN [dicts |-> m.dicts, lists |-> m.lists, ref |-> c]
    ELSE LET letter == LETTERS[i]
             at_a == m.lists[m.dicts[a][letter]]
             at_b == m.lists[m.dicts[b][letter]]
         IN  IF at_b = <<>> THEN combine_maps_loop(m, a, b, c, i + 1)
             ELSE IF at_a = <<>>
             THEN combine_maps_loop(
                      [dicts |-> m.dicts,
                       lists |-> [m.lists EXCEPT ![m.dicts[c][letter]] = @ \o at_b]],
                      a, b, c, i + 1)
             ELSE combine_maps_loop(
                      [dicts |-> [m.dicts EXCEPT ![c][letter] = Len(m.lists) + 1],
                       lists |->
                           Append(m.lists,
                                  SelectSeq(at_a, LAMBDA x : x \in Elems(at_b)))],
                      a, b, c, i + 1)

\* lines 204-218
combine_maps_refs(m, a, b) ==
    LET copied == deepcopy(m, a)
    IN  combine_maps_loop(copied, a, b, copied.ref, 1)

\* lines 227-234: the loop over solved_letters from position pos on
RECURSIVE reduce_loop(_, _, _)
reduce_loop(map, solved, pos) ==
    IF pos >= Len(solved) THEN map
    ELSE LET r == remove_solved(map, solved, solved[pos + 1], 1)
         IN  reduce_loop(r.map, r.solved, pos + 1)

\* lines 221-236: the removals of line 231 change the lists of _cipher_map in
\* place
get_reduced_map_refs(m, d) ==
    LET copied == deepcopy(m, d)
        _cipher_map == copied.dicts[copied.ref]
        before == map_value(copied.dicts, copied.lists, copied.ref)
        after == reduce_loop(before, single_candidates(before, 1), 0)
    IN  [dicts |-> copied.dicts,
         lists |-> [address \in 1..Len(copied.lists) |->
                       IF \E letter \in LetterSet : _cipher_map[letter] = address
                       THEN after[CHOOSE letter \in LetterSet :
                                      _cipher_map[letter] = address]
                       ELSE copied.lists[address]],
         ref |-> copied.ref]

\* lines 179-199: the loop of get_letter_mapping over the words left; c is
\* _cipher_map.  word_map is a new map whose lists the appends of line 196
\* fill.
RECURSIVE letter_mapping_loop(_, _, _)
letter_mapping_loop(m, c, words) ==
    IF words = <<>> THEN [dicts |-> m.dicts, lists |-> m.lists, ref |-> c]
    ELSE LET word == Head(words)
             candidates == en_patterns_get(get_word_pattern(word))
             word_map == new_map_object(m,
                             IF candidates = None THEN create_letter_map
                             ELSE add_candidates(create_letter_map, word,
                                                 candidates))
         IN  IF candidates = None
             THEN letter_mapping_loop(word_map, c, Tail(words))
             ELSE LET combined == combine_maps_refs(word_map, c, word_map.ref)
                  IN  letter_mapping_loop(combined, combined.ref, Tail(words))

\* lines 176-201
get_letter_mapping_refs(m, d, words) ==
    LET copied == deepcopy(m, d)
    IN  letter_mapping_loop(copied, copied.ref, words)

\* the lists drawn for the letters X and Y of the maps handed in
AliasLists == {<<>>, <<"A">>, <<"A", "I">>, <<"T", "A">>}

AliasInputs ==
    {[letter \in LetterSet |->
         IF letter = "X" THEN x ELSE IF letter = "Y" THEN y ELSE <<>>] :
     x \in AliasLists, y \in AliasLists}

\* most words handed to get_letter_mapping
MaxAliasWords == 1

\* one of the three functions is about to be called with maps that exist in
\* memory, each with lists of its own
AliasInit ==
    /\ pc \in {"combine_maps", "get_reduced_map", "get_letter_mapping"}
    /\ script = "simple_subs_cipher.py"
    /\ msg = <<>>
    /\ key = <<>>
    /\ ciphertext = <<>>
    /\ cleartext = <<>>
    /\ cipher_text \in IF pc = "get_letter_mapping"
                       THEN BoundedSeq(CipherWords, MaxAliasWords) ELSE {<<>>}
    /\ word_idx = 0
    /\ cipher_map = <<>>
    /\ evidence = {}
    /\ work_map = <<>>
    /\ solved_letters = <<>>
    /\ s_pos = 0
    /\ reduced_map = <<>>
    /\ reduced_twice = <<>>
    /\ run = 0
    /\ \E va \in AliasInputs, vb \in AliasInputs :
          LET one == new_map_object([dicts |-> <<>>, lists |-> <<>>], va)
              two == new_map_object(one, vb)
          IN  IF pc = "combine_maps"
              THEN /\ dict_heap = two.dicts
                   /\ list_heap = two.lists
                   /\ first_map = one.ref
                   /\ second_map = two.ref
              ELSE /\ dict_heap = one.dicts
                   /\ list_heap = one.lists
                   /\ first_map = one.ref
                   /\ second_map = 0
    /\ new_map = 0
    /\ FreqIdle

\* what a call leaves: memory, the address returned, the caller going on
Returned(r) ==
    /\ dict_heap' = r.dicts
    /\ list_heap' = r.lists
    /\ new_map' = r.ref
    /\ pc' = "returned"
    /\ UNCHANGED <<script, msg, key, ciphertext, cleartext, cipher_text,
                   word_idx, cipher_map, evidence, work_map, solved_letters,
                   s_pos, reduced_map, reduced_twice, run, first_map, second_map, freq_vars>>

CombineMapsCall ==
    /\ pc = "combine_maps"
    /\ Returned(combine_maps_refs([dicts |-> dict_heap, lists |-> list_heap],
                                  first_map, second_map))

ReducedMapCall ==
    /\ pc = "get_reduced_map"
    /\ Returned(get_reduced_map_refs([dicts |-> dict_heap, lists |-> list_heap],
                                     first_map))

LetterMappingCall ==
    /\ pc = "get_letter_mapping"
    /\ Returned(get_letter_mapping_refs([dicts |-> dict_heap, lists |-> list_heap],
                                        first_map, cipher_text))

\* the caller changes the map it was handed back: it appends to one of its
\* lists, deletes the first member of one, or puts a new list in it
ModifyReturned ==
    /\ pc = "returned"
    /\ \E letter \in {"X", "Z"} :
          LET address == dict_heap[new_map][letter]
          IN  \/ /\ list_heap' = [list_heap EXCEPT ![address] = Append(@, "Q")]
                 /\ UNCHANGED dict_heap
              \/ /\ list_heap[address] # <<>>
                 /\ list_heap' = [list_heap EXCEPT ![address] = Tail(@)]
                 /\ UNCHANGED dict_heap
              \/ /\ list_heap' = Append(list_heap, <<"Q">>)
                 /\ dict_heap' = [dict_heap EXCEPT ![new_map][letter] =
                                      Len(list_heap) + 1]
    /\ pc' = "modified"
    /\ UNCHANGED <<script, msg, key, ciphertext, cleartext, cipher_text,
                   word_idx, cipher_map, evidence, work_map, solved_letters,
                   s_pos, reduced_map, reduced_twice, run, first_map, second_map, new_map, freq_vars>>

AliasNext ==
    CombineMapsCall \/ ReducedMapCall \/ LetterMappingCall \/ ModifyReturned

SpecAlias == AliasInit /\ [][AliasNext]_vars

\* the list objects a map holds
ListsOf(dicts, d) == {dicts[d][letter] : letter \in LetterSet}

\* C29: no aliasing.  A call of get_letter_mapping, combine_maps or
\* get_reduced_map returns a dict that did not exist before, none of whose
\* lists is a list of a map passed in, and leaves the value of every map
\* passed in as it was; whatever is done to the returned map afterwards, the
\* maps passed in keep their value.
C29_NoAliasing ==
    /\ [](pc \in {"returned", "modified"} =>
            /\ new_map \notin {first_map, second_map}
            /\ ListsOf(dict_heap, new_map) \cap ListsOf(dict_heap, first_map) = {}
            /\ second_map # 0 =>
                  ListsOf(dict_heap, new_map) \cap ListsOf(dict_heap, second_map) = {})
    /\ [][/\ first_map' = first_map
          /\ second_map' = second_map
          /\ map_value(dict_heap', list_heap', first_map)
                = map_value(dict_heap, list_heap, first_map)
          /\ second_map # 0 =>
                map_value(dict_heap', list_heap', second_map)
                    = map_value(dict_heap, list_heap, second_map)
          /\ pc' = "returned" => new_map' > Len(dict_heap)]_vars

\* get_reduced_map has returned a map in which A is removed from the list of
\* Y, and the caller has appended Q to its list of X: the map passed in still
\* has A alone for X and T, A for Y
C29_Witness ==
    /\ pc = "modified"
    /\ second_map = 0
    /\ cipher_text = <<>>
    /\ map_value(dict_heap, list_heap, first_map)["X"] = <<"A">>
    /\ map_value(dict_heap, list_heap, first_map)["Y"] = <<"T", "A">>
    /\ map_value(dict_heap, list_heap, new_map)["X"] = <<"A", "Q">>
    /\ map_value(dict_heap, list_heap, new_map)["Y"] = <<"T">>

====
